---- MODULE Spec2Model ----
(***************************************************************************)
(* Model of the icon-prop codemod: the transformer exported last by        *)
(* src/transforms/icon-prop-to-component-transform.cjs (lines 157-659),    *)
(* which is the one jscodeshift runs, and of its identifier mapper.        *)
(*                                                                         *)
(* JavaScript strings that the code inspects character by character (icon *)
(* strings, component names, import names) are sequences of one-character *)
(* strings.  Attribute names and node types, which the code only compares *)
(* for equality, are TLA+ strings.                                         *)
(***************************************************************************)
EXTENDS Integers, Sequences, FiniteSets, TLC

VARIABLES
  mapIn,        \* argument of getNewIconComponentName (mapper specification)
  mapOut,       \* results of the calls made so far, in order
  pc,           \* position in the transformer
  run,          \* which run over the file this is (1: the first)
  nodes,        \* the JSX elements of the tree, by identity
  body,         \* program.body: the statements of the file
  comments,     \* programNode.comments: comments attached to the Program node
  ci,           \* index in TARGET_COMPONENTS of the component being processed
  queue,        \* foundElements still to be handed to the forEach callback
  fileHasSkippedItems,
  trulyProblematicSkipOccurred,
  importedIconNamesFromNewPackage,
  visits,       \* history: one record per callback invocation of this run
  input,        \* history: nodes, body and comments as this run received them
  previous,     \* history: what the previous run returned (<<>> in run 1
                \* and in the run on another file)
  cliPc,        \* position in the command line runner
  argv,         \* the options yargs parsed
  args,         \* the arguments handed to jscodeshift
  child,        \* the spawned jscodeshift process
  printed,      \* what the runner itself wrote to the console, in order
  exitStatus    \* exit status of the runner's process (NoExit: still running)

mapVars == <<mapIn, mapOut>>
treeVars == <<nodes, body, comments>>
ledgerVars == <<fileHasSkippedItems, trulyProblematicSkipOccurred,
                importedIconNamesFromNewPackage>>
runVars == <<pc, run, ci, queue, visits, input, previous>>
cliVars == <<cliPc, argv, args, child, printed, exitStatus>>
vars == <<mapVars, treeVars, ledgerVars, runVars, cliVars>>

-----------------------------------------------------------------------------
(* Characters and JavaScript string primitives *)

LowerChars == <<"a","b","c","d","e","f","g","h","i","j","k","l","m",
                "n","o","p","q","r","s","t","u","v","w","x","y","z">>
UpperChars == <<"A","B","C","D","E","F","G","H","I","J","K","L","M",
                "N","O","P","Q","R","S","T","U","V","W","X","Y","Z">>

\* String.prototype.toUpperCase on one character
toUpperCase(c) ==
  IF \E i \in 1..Len(LowerChars) : LowerChars[i] = c
    THEN UpperChars[CHOOSE i \in 1..Len(LowerChars) : LowerChars[i] = c]
    ELSE c

\* String.prototype.toLowerCase on one character
toLowerCase(c) ==
  IF \E i \in 1..Len(UpperChars) : UpperChars[i] = c
    THEN LowerChars[CHOOSE i \in 1..Len(UpperChars) : UpperChars[i] = c]
    ELSE c

\* s.toLowerCase()
LowerAll(s) == [i \in 1..Len(s) |-> toLowerCase(s[i])]

\* s.startsWith(p)
startsWith(s, p) == Len(s) >= Len(p) /\ SubSeq(s, 1, Len(p)) = p

\* s.substring(n)
substring(s, n) == SubSeq(s, n + 1, Len(s))

\* s.split(separator): the segments between separator characters, empty
\* ones included
RECURSIVE SplitFrom(_, _, _, _)
SplitFrom(s, seps, i, cur) ==
  IF i > Len(s) THEN <<cur>>
  ELSE IF s[i] \in seps THEN <<cur>> \o SplitFrom(s, seps, i + 1, <<>>)
  ELSE SplitFrom(s, seps, i + 1, Append(cur, s[i]))

split(s, seps) == SplitFrom(s, seps, 1, <<>>)

\* variant: split('_')
UnderscoreOnly == {"_"}

\* the separators of the mapper's split(/[_-]/)
NameSeparators == {"_", "-"}

\* the .map callback: '' for an empty part, else first char upper, rest lower
capitalizePart(part) ==
  IF part = <<>> THEN <<>>
  ELSE <<toUpperCase(part[1])>> \o LowerAll(SubSeq(part, 2, Len(part)))

\* parts.map(capitalizePart).join('')
RECURSIVE JoinParts(_)
JoinParts(parts) ==
  IF parts = <<>> THEN <<>>
  ELSE capitalizePart(Head(parts)) \o JoinParts(Tail(parts))

-----------------------------------------------------------------------------
(* The identifier mapper *)

UnknownIcon == <<"U","n","k","n","o","w","n","I","c","o","n">>

ic_       == <<"i","c","_">>
ic_basic_ == <<"i","c","_","b","a","s","i","c","_">>
ic_outline_ == <<"i","c","_","o","u","t","l","i","n","e","_">>
ic_basic_outline_ == ic_basic_ \o <<"o","u","t","l","i","n","e","_">>

\* JavaScript values handed to the mapper: kind is the typeof/null tag
JsString(s) == [kind |-> "string", str |-> s, num |-> 0]
JsNull      == [kind |-> "null", str |-> <<>>, num |-> 0]
JsUndefined == [kind |-> "undefined", str |-> <<>>, num |-> 0]
JsNumber(n) == [kind |-> "number", str |-> <<>>, num |-> n]

\* !v
Falsy(v) ==
  \/ v.kind \in {"null", "undefined"}
  \/ v.kind = "string" /\ v.str = <<>>
  \/ v.kind = "number" /\ v.num = 0

\* variant: 'ic_' is tried before 'ic_basic_'
StripPrefixShortestFirst(s) ==
  IF startsWith(s, ic_) THEN substring(s, Len(ic_))
  ELSE IF startsWith(s, ic_basic_) THEN substring(s, Len(ic_basic_))
  ELSE s

\* the prefix the mapper removes: 'ic_basic_' first, else 'ic_', else none
StripPrefix(s) ==
  IF startsWith(s, ic_basic_) THEN substring(s, Len(ic_basic_))
  ELSE IF startsWith(s, ic_) THEN substring(s, Len(ic_))
  ELSE s

\* variant: the joined segments are returned as they are, also when empty
getNewIconComponentNameNoFallback(iconString) ==
  IF Falsy(iconString) \/ iconString.kind # "string" THEN UnknownIcon
  ELSE JoinParts(split(StripPrefix(iconString.str), NameSeparators))

getNewIconComponentName(iconString) ==
  IF Falsy(iconString) \/ iconString.kind # "string" THEN UnknownIcon
  ELSE LET componentName == JoinParts(split(StripPrefix(iconString.str), NameSeparators))
       IN IF componentName # <<>> THEN componentName ELSE UnknownIcon

-----------------------------------------------------------------------------
(* Syntax-tree nodes.  Every expression or attribute-value node is a record *)
(* with the same fields; `expression` holds zero or one node, `elem` the    *)
(* identity of a JSX element of the heap `nodes` (0: none).                 *)

NoNode == [type |-> "None", str |-> <<>>, num |-> 0, elem |-> 0,
           properties |-> <<>>, expression |-> <<>>]

stringLiteral(s) == [NoNode EXCEPT !.type = "StringLiteral", !.str = s]
literal(n) == [NoNode EXCEPT !.type = "NumericLiteral", !.num = n]
identifier(s) == [NoNode EXCEPT !.type = "Identifier", !.str = s]
memberExpression(s) == [NoNode EXCEPT !.type = "MemberExpression", !.str = s]
\* a template literal: num is quasis.length, str the cooked first quasi
templateLiteral(s, quasis) ==
  [NoNode EXCEPT !.type = "TemplateLiteral", !.str = s, !.num = quasis]
jsxElementRef(id) == [NoNode EXCEPT !.type = "JSXElement", !.elem = id]
objectExpression(props) ==
  [NoNode EXCEPT !.type = "ObjectExpression", !.properties = props]
jsxExpressionContainer(e) ==
  [NoNode EXCEPT !.type = "JSXExpressionContainer", !.expression = <<e>>]

\* Members of an object literal.  keyName is key.name (the empty string when
\* the key is not an Identifier and so has no name).
objectProperty(keyName, v) ==
  [type |-> "ObjectProperty", keyType |-> "Identifier", keyName |-> keyName,
   value |-> v]
stringKeyProperty(v) ==
  [type |-> "ObjectProperty", keyType |-> "StringLiteral", keyName |-> "",
   value |-> v]
spreadElement(arg) ==
  [type |-> "SpreadElement", keyType |-> "None", keyName |-> "", value |-> arg]

\* Attributes.  id is the identity of the attribute node: its position in the
\* element that the parser built, 0 for a node built by the transformer.
jsxAttribute(name, v) ==
  [id |-> 0, type |-> "JSXAttribute", name |-> name, value |-> v]
jsxSpreadAttribute(arg) ==
  [id |-> 0, type |-> "JSXSpreadAttribute", name |-> "", value |-> arg]
NoAttr == [id |-> 0, type |-> "None", name |-> "", value |-> NoNode]

\* Element names
jsxIdentifier(name) ==
  [type |-> "JSXIdentifier", name |-> name, object |-> <<>>, property |-> <<>>]
jsxMemberExpression(object, property) ==
  [type |-> "JSXMemberExpression", name |-> <<>>, object |-> object,
   property |-> property]

\* j.jsxElement(j.jsxOpeningElement(name, attributes, true))
jsxElement(name, attributes) == [name |-> name, attributes |-> attributes]

getComponentName(node) ==
  IF node.name.type = "JSXIdentifier" THEN node.name.name
  ELSE node.name.object \o <<".">> \o node.name.property

-----------------------------------------------------------------------------
(* The attribute classifier *)

\* the accumulators of parseComponentAttributes before the first attribute
ParseStart ==
  [iconPropValue |-> JsNull, iconObjectAttributes |-> <<>>,
   directAttributes |-> [color |-> NoAttr, size |-> NoAttr],
   remainingAttributes |-> <<>>, isUnhandledIconProp |-> FALSE,
   iconAttributeNode |-> NoAttr, foundIconStringInObject |-> FALSE]

\* one round of properties.forEach over the members of icon={{ ... }}
ParseProperty(acc, prop) ==
  IF prop.type = "ObjectProperty" /\ prop.keyType = "Identifier" THEN
    IF prop.keyName = "icon" /\ prop.value.type = "StringLiteral" THEN
      [acc EXCEPT !.iconPropValue = JsString(prop.value.str),
                  !.foundIconStringInObject = TRUE]
    ELSE
      LET jsxValue == IF prop.value.type = "StringLiteral"
                        THEN stringLiteral(prop.value.str)
                        ELSE jsxExpressionContainer(prop.value)
      IN [acc EXCEPT !.iconObjectAttributes =
                        Append(@, jsxAttribute(prop.keyName, jsxValue))]
  ELSE IF prop.type = "SpreadElement" THEN
    [acc EXCEPT !.iconObjectAttributes = Append(@, jsxSpreadAttribute(prop.value))]
  ELSE acc

RECURSIVE ParseProperties(_, _)
ParseProperties(acc, props) ==
  IF props = <<>> THEN acc
  ELSE ParseProperties(ParseProperty(acc, Head(props)), Tail(props))

\* the object-literal branch for an icon attribute
ParseIconObject(acc, properties) ==
  IF Len(properties) > 0 THEN
    LET done == ParseProperties([acc EXCEPT !.foundIconStringInObject = FALSE],
                                properties)
        hasIconKey == \E i \in 1..Len(properties) :
                         /\ properties[i].type = "ObjectProperty"
                         /\ properties[i].keyName = "icon"
        hasSpread == \E i \in 1..Len(properties) :
                         properties[i].type = "SpreadElement"
    IN IF ~done.foundIconStringInObject /\ hasIconKey
         THEN [done EXCEPT !.isUnhandledIconProp = TRUE]
       ELSE IF ~done.foundIconStringInObject /\ ~hasSpread
         THEN [done EXCEPT !.isUnhandledIconProp = TRUE]
       ELSE done
  ELSE [acc EXCEPT !.isUnhandledIconProp = TRUE]

\* the value shapes of the icon attribute
ParseIconValue(acc, valueNode) ==
  IF valueNode.type = "StringLiteral" THEN
    [acc EXCEPT !.iconPropValue = JsString(valueNode.str)]
  ELSE IF /\ valueNode.type = "JSXExpressionContainer"
          /\ valueNode.expression # <<>>
          /\ valueNode.expression[1].type = "ObjectExpression" THEN
    ParseIconObject(acc, valueNode.expression[1].properties)
  ELSE [acc EXCEPT !.isUnhandledIconProp = TRUE]

\* one round of allAttributes.forEach
ParseAttribute(acc, attr) ==
  IF attr.type = "JSXAttribute" THEN
    IF attr.name = "icon" THEN
      ParseIconValue([acc EXCEPT !.iconAttributeNode = attr], attr.value)
    ELSE IF attr.name = "color" THEN
      [acc EXCEPT !.directAttributes.color = attr]
    ELSE IF attr.name = "size" THEN
      [acc EXCEPT !.directAttributes.size = attr]
    ELSE [acc EXCEPT !.remainingAttributes = Append(@, attr)]
  ELSE [acc EXCEPT !.remainingAttributes = Append(@, attr)]

RECURSIVE ParseAttributes(_, _)
ParseAttributes(acc, attrs) ==
  IF attrs = <<>> THEN acc
  ELSE ParseAttributes(ParseAttribute(acc, Head(attrs)), Tail(attrs))

parseComponentAttributes(allAttributes) ==
  ParseAttributes(ParseStart, allAttributes)

-----------------------------------------------------------------------------
(* Configuration of the transformer *)

ListItemSupportingIcon ==
  <<"L","i","s","t","I","t","e","m",".","S","u","p","p","o","r","t","i","n","g",
    "I","c","o","n">>
CardHeaderIcon == <<"C","a","r","d","H","e","a","d","e","r",".","I","c","o","n">>
NavBarIcon == <<"N","a","v","B","a","r",".","I","c","o","n">>
TextButton == <<"T","e","x","t","B","u","t","t","o","n">>
TopNavigationIconButton ==
  <<"T","o","p","N","a","v","i","g","a","t","i","o","n",".","I","c","o","n",
    "B","u","t","t","o","n">>
BottomNavItem == <<"B","o","t","t","o","m","N","a","v","I","t","e","m">>
BasicCardHeader == <<"B","a","s","i","c","C","a","r","d","H","e","a","d","e","r">>

TARGET_COMPONENTS ==
  <<ListItemSupportingIcon, CardHeaderIcon, NavBarIcon, TextButton,
    TopNavigationIconButton, BottomNavItem, BasicCardHeader>>

PROPS_TO_TRANSFER_FROM_OUTER_TO_INNER == <<"color">>

COMPONENTS_THAT_DO_NOT_NEED_DEFAULT_SIZE_PROP_FOR_INNER_ICON ==
  {BasicCardHeader, CardHeaderIcon, ListItemSupportingIcon, TextButton,
   NavBarIcon, TopNavigationIconButton}

\* the size={20} given to an inner icon that gets no other size
DefaultSize == 20

\* the import source '@3o3/mystique-icons'
mystiqueIconsPath == "@3o3/mystique-icons"

\* the token by which an existing review comment is recognised
MarkerToken == "icon-prop-codemod:"

\* topLevelCommentText.substring(3), as the words the code can look for
topLevelCommentText ==
  <<"TODO:", MarkerToken, "This file contains components with 'icon' props",
    "that were skipped", "and require manual review.">>

-----------------------------------------------------------------------------
(* Finding elements: root.find walks the tree in document order *)

RECURSIVE ElemsOfNode(_, _), ElemsOfProps(_, _), ElemsOfAttrs(_, _)
ElemsOfNode(h, v) ==
  IF v.type = "JSXElement" THEN <<v.elem>> \o ElemsOfAttrs(h, h[v.elem].attributes)
  ELSE IF v.type = "JSXExpressionContainer" /\ v.expression # <<>>
    THEN ElemsOfNode(h, v.expression[1])
  ELSE IF v.type = "ObjectExpression" THEN ElemsOfProps(h, v.properties)
  ELSE <<>>
ElemsOfProps(h, props) ==
  IF props = <<>> THEN <<>>
  ELSE ElemsOfNode(h, Head(props).value) \o ElemsOfProps(h, Tail(props))
ElemsOfAttrs(h, attrs) ==
  IF attrs = <<>> THEN <<>>
  ELSE ElemsOfNode(h, Head(attrs).value) \o ElemsOfAttrs(h, Tail(attrs))

\* every JSX element reachable from the program body, in document order
RECURSIVE ElemsOfBody(_, _)
ElemsOfBody(h, stmts) ==
  IF stmts = <<>> THEN <<>>
  ELSE (IF Head(stmts).elem # 0
          THEN <<Head(stmts).elem>> \o ElemsOfAttrs(h, h[Head(stmts).elem].attributes)
          ELSE <<>>)
       \o ElemsOfBody(h, Tail(stmts))

\* variant: every entry is looked up by findJSXElements, dotted or not
MatchesComponentByIdentifier(node, componentName) ==
  /\ node.name.type = "JSXIdentifier"
  /\ node.name.name = componentName

\* the filter built for one entry of TARGET_COMPONENTS
MatchesComponent(node, componentName) ==
  LET parts == split(componentName, {"."})
  IN IF Len(parts) = 2 /\ parts[1] # <<>> /\ parts[2] # <<>>
       THEN /\ node.name.type = "JSXMemberExpression"
            /\ node.name.object = parts[1]
            /\ node.name.property = parts[2]
       ELSE /\ node.name.type = "JSXIdentifier"
            /\ node.name.name = componentName

\* foundElements for one entry of TARGET_COMPONENTS
FoundElements(h, stmts, componentName) ==
  SelectSeq(ElemsOfBody(h, stmts), LAMBDA id : MatchesComponent(h[id], componentName))

-----------------------------------------------------------------------------
(* The forEach callback: what one visit does to one element.  A visit      *)
(* yields the element's attribute list (assigned says whether the callback *)
(* assigned openingElement.attributes), the elements it created, the names *)
(* it added to the registry, the flags it set, the lines it wrote to the   *)
(* console (none, every console call of the callback is commented out) and *)
(* innerIconElementProps, the nodes it put on the inner icon.              *)

NoVisit(attrs) ==
  [attributes |-> attrs, assigned |-> FALSE, created |-> <<>>, added |-> <<>>,
   skipped |-> FALSE, problem |-> FALSE, logged |-> <<>>, inner |-> <<>>,
   outcome |-> "NoIconProp"]

\* attributes of a new element: as nodes of that element they are identified
\* by their position in it
Renumber(attrs) == [i \in 1..Len(attrs) |-> [attrs[i] EXCEPT !.id = i]]

\* props.some(p => p.name && p.name.name === propName)
SomeNamed(props, propName) ==
  \E i \in 1..Len(props) : props[i].type = "JSXAttribute" /\ props[i].name = propName

\* props.includes(attr)
Includes(props, attr) == \E i \in 1..Len(props) : props[i] = attr

\* variant: a direct attribute is transferred whatever the object supplies
RECURSIVE TransferPropsAlways(_, _, _)
TransferPropsAlways(inner, direct, propNames) ==
  IF propNames = <<>> THEN inner
  ELSE LET directAttr == direct[Head(propNames)]
           next == IF directAttr # NoAttr THEN Append(inner, directAttr) ELSE inner
       IN TransferPropsAlways(next, direct, Tail(propNames))

\* PROPS_TO_TRANSFER_FROM_OUTER_TO_INNER.forEach over the inner props
RECURSIVE TransferProps(_, _, _)
TransferProps(inner, direct, propNames) ==
  IF propNames = <<>> THEN inner
  ELSE LET directAttr == direct[Head(propNames)]
           next == IF directAttr # NoAttr /\ ~SomeNamed(inner, Head(propNames))
                     THEN Append(inner, directAttr)
                     ELSE inner
       IN TransferProps(next, direct, Tail(propNames))

\* variant: the default size is appended for every component
ResolveSizeNoExemption(inner, direct, currentComponentName) ==
  IF SomeNamed(inner, "size") THEN inner
  ELSE IF direct.size # NoAttr THEN Append(inner, direct.size)
  ELSE Append(inner, jsxAttribute("size", jsxExpressionContainer(literal(DefaultSize))))

\* size of the inner icon: the object's, else the outer one's, else the default
ResolveSize(inner, direct, currentComponentName) ==
  IF SomeNamed(inner, "size") THEN inner
  ELSE IF direct.size # NoAttr THEN Append(inner, direct.size)
  ELSE IF currentComponentName \notin
            COMPONENTS_THAT_DO_NOT_NEED_DEFAULT_SIZE_PROP_FOR_INNER_ICON
    THEN Append(inner, jsxAttribute("size", jsxExpressionContainer(literal(DefaultSize))))
  ELSE inner

\* the props of the inner icon element
InnerIconElementProps(parsedProps, currentComponentName) ==
  ResolveSize(TransferProps(parsedProps.iconObjectAttributes,
                            parsedProps.directAttributes,
                            PROPS_TO_TRANSFER_FROM_OUTER_TO_INNER),
              parsedProps.directAttributes, currentComponentName)

\* variant: the new icon attribute is put first
FinalOuterAttributesIconFirst(parsedProps, inner, newId) ==
  LET direct == parsedProps.directAttributes
      withIcon == <<jsxAttribute("icon", jsxExpressionContainer(jsxElementRef(newId)))>>
                    \o parsedProps.remainingAttributes
      withColor == IF direct.color # NoAttr /\ ~Includes(inner, direct.color)
                     THEN Append(withIcon, direct.color) ELSE withIcon
  IN IF direct.size # NoAttr /\ ~Includes(inner, direct.size)
       THEN Append(withColor, direct.size) ELSE withColor

\* the outer element's attributes after the rewrite; newId is the identity of
\* the inner icon element
FinalOuterAttributes(parsedProps, inner, newId) ==
  LET direct == parsedProps.directAttributes
      withIcon == Append(parsedProps.remainingAttributes,
                         jsxAttribute("icon", jsxExpressionContainer(jsxElementRef(newId))))
      withColor == IF direct.color # NoAttr /\ ~Includes(inner, direct.color)
                     THEN Append(withIcon, direct.color) ELSE withIcon
  IN IF direct.size # NoAttr /\ ~Includes(inner, direct.size)
       THEN Append(withColor, direct.size) ELSE withColor

\* variant: a skip is a problem only when the classifier marked the value
IsProblemWhenUnhandled(parsedProps) ==
  /\ parsedProps.isUnhandledIconProp
  /\ ~ ( /\ parsedProps.iconAttributeNode.value.type = "JSXExpressionContainer"
         /\ parsedProps.iconAttributeNode.value.expression # <<>>
         /\ parsedProps.iconAttributeNode.value.expression[1].type = "JSXElement" )

\* isProblem of the skip branch: FALSE only for icon={<Element />}
IsProblem(parsedProps) ==
  ~ ( /\ parsedProps.isUnhandledIconProp
      /\ parsedProps.iconAttributeNode # NoAttr
      /\ parsedProps.iconAttributeNode.value.type = "JSXExpressionContainer"
      /\ parsedProps.iconAttributeNode.value.expression # <<>>
      /\ parsedProps.iconAttributeNode.value.expression[1].type = "JSXElement" )

\* the skip branch: the element is left alone, the flags record why
SkipUnhandled(attrs, parsedProps) ==
  [NoVisit(attrs) EXCEPT
     !.skipped = TRUE,
     !.problem = IsProblem(parsedProps),
     !.outcome = IF IsProblem(parsedProps) THEN "SkippedWithWarning"
                 ELSE "SkippedSilently"]

\* variant: the icon attribute is taken out and pushed back last
SkipUnknownIconMovingIcon(attrs) ==
  [NoVisit(SelectSeq(attrs, LAMBDA a : ~(a.type = "JSXAttribute" /\ a.name = "icon"))
           \o SelectSeq(attrs, LAMBDA a : a.type = "JSXAttribute" /\ a.name = "icon"))
     EXCEPT !.assigned = TRUE, !.skipped = TRUE, !.problem = TRUE,
            !.outcome = "SkippedWithWarning"]

\* the UnknownIcon branch
SkipUnknownIcon(attrs) ==
  [NoVisit(attrs) EXCEPT !.skipped = TRUE, !.problem = TRUE,
                         !.outcome = "SkippedWithWarning"]

\* variant: the rewrite forgets to register the name
RewriteIconUnregistered(parsedProps, currentComponentName, newIconComponentName, newId) ==
  LET inner == InnerIconElementProps(parsedProps, currentComponentName)
  IN [attributes |-> FinalOuterAttributes(parsedProps, inner, newId),
      assigned |-> TRUE,
      created |-> <<jsxElement(jsxIdentifier(newIconComponentName), Renumber(inner))>>,
      added |-> <<>>,
      skipped |-> FALSE, problem |-> FALSE, logged |-> <<>>, inner |-> inner,
      outcome |-> "Rewritten"]

\* the rewrite path
RewriteIcon(parsedProps, currentComponentName, newIconComponentName, newId) ==
  LET inner == InnerIconElementProps(parsedProps, currentComponentName)
  IN [attributes |-> FinalOuterAttributes(parsedProps, inner, newId),
      assigned |-> TRUE,
      created |-> <<jsxElement(jsxIdentifier(newIconComponentName), Renumber(inner))>>,
      added |-> <<newIconComponentName>>,
      skipped |-> FALSE, problem |-> FALSE, logged |-> <<>>, inner |-> inner,
      outcome |-> "Rewritten"]

\* the callback for every component but TextButton
VisitIconProp(attrs, currentComponentName, newId) ==
  LET parsedProps == parseComponentAttributes(attrs)
      newIconComponentName == getNewIconComponentName(parsedProps.iconPropValue)
  IN IF parsedProps.iconAttributeNode = NoAttr THEN NoVisit(attrs)
     ELSE IF parsedProps.isUnhandledIconProp \/ parsedProps.iconPropValue = JsNull
       THEN SkipUnhandled(attrs, parsedProps)
     ELSE IF newIconComponentName = UnknownIcon THEN SkipUnknownIcon(attrs)
     ELSE RewriteIcon(parsedProps, currentComponentName, newIconComponentName, newId)

\* the callback for TextButton: one round of attributes.forEach.  acc.base is
\* the number of elements that exist before this visit.
TextButtonAttribute(acc, attr) ==
  IF attr.type = "JSXAttribute" /\ attr.name \in {"prefixIcon", "suffixIcon"} THEN
    LET isString == attr.value.type = "StringLiteral"
        iconValue == IF isString THEN JsString(attr.value.str) ELSE JsNull
        isAlreadyJsx == /\ attr.value.type = "JSXExpressionContainer"
                        /\ attr.value.expression # <<>>
                        /\ attr.value.expression[1].type = "JSXElement"
        unhandled == ~isString /\ ~isAlreadyJsx
        \* after the first if / else if / else
        first == IF isString THEN acc
                 ELSE IF isAlreadyJsx THEN [acc EXCEPT !.final = Append(@, attr)]
                 ELSE [acc EXCEPT !.final = Append(@, attr),
                                  !.skipped = TRUE, !.problem = TRUE]
        newIconCompName == getNewIconComponentName(iconValue)
        newId == acc.base + Len(acc.created) + 1
    IN IF ~Falsy(iconValue) THEN
         IF newIconCompName = UnknownIcon
           THEN [first EXCEPT !.final = Append(@, attr),
                              !.skipped = TRUE, !.problem = TRUE]
           ELSE [first EXCEPT
                   !.added = Append(@, newIconCompName),
                   !.created = Append(@, jsxElement(jsxIdentifier(newIconCompName), <<>>)),
                   !.final = Append(@, jsxAttribute(attr.name,
                                         jsxExpressionContainer(jsxElementRef(newId)))),
                   !.hasModifiedIconProp = TRUE]
       ELSE IF ~isAlreadyJsx /\ ~Includes(first.final, attr)
         THEN [first EXCEPT !.final = Append(@, attr)]
       ELSE first
  ELSE [acc EXCEPT !.final = Append(@, attr)]

RECURSIVE TextButtonAttributes(_, _)
TextButtonAttributes(acc, attrs) ==
  IF attrs = <<>> THEN acc
  ELSE TextButtonAttributes(TextButtonAttribute(acc, Head(attrs)), Tail(attrs))

VisitTextButton(attrs, base) ==
  LET acc == TextButtonAttributes(
               [final |-> <<>>, hasModifiedIconProp |-> FALSE, skipped |-> FALSE,
                problem |-> FALSE, added |-> <<>>, created |-> <<>>, base |-> base],
               attrs)
      assigned == acc.hasModifiedIconProp \/ Len(acc.final) # Len(attrs)
  IN [attributes |-> IF assigned THEN acc.final ELSE attrs,
      assigned |-> assigned,
      created |-> acc.created,
      added |-> acc.added,
      skipped |-> acc.skipped,
      problem |-> acc.problem,
      logged |-> <<>>, inner |-> <<>>,
      outcome |-> IF acc.hasModifiedIconProp THEN "Rewritten"
                  ELSE IF acc.problem THEN "SkippedWithWarning"
                  ELSE IF \E i \in 1..Len(attrs) :
                            attrs[i].name \in {"prefixIcon", "suffixIcon"}
                    THEN "SkippedSilently"
                  ELSE "NoIconProp"]

-----------------------------------------------------------------------------
(* Import and comment finalization *)

\* characters in the order of their UTF-16 code units
CodeOrder == <<"-", ".">> \o UpperChars \o <<"_">> \o LowerChars

CharCode(c) == CHOOSE i \in 1..Len(CodeOrder) : CodeOrder[i] = c

\* a < b as Array.prototype.sort() without a comparator orders strings
RECURSIVE StringLess(_, _)
StringLess(a, b) ==
  IF a = <<>> THEN b # <<>>
  ELSE IF b = <<>> THEN FALSE
  ELSE IF Head(a) = Head(b) THEN StringLess(Tail(a), Tail(b))
  ELSE CharCode(Head(a)) < CharCode(Head(b))

\* Array.from(set).sort()
RECURSIVE SortNames(_)
SortNames(names) ==
  IF names = {} THEN <<>>
  ELSE LET least == CHOOSE n \in names : \A m \in names \ {n} : StringLess(n, m)
       IN <<least>> \o SortNames(names \ {least})

importSpecifier(name) ==
  [type |-> "ImportSpecifier", imported |-> name, local |-> name]

importDeclaration(specifiers, source) ==
  [type |-> "ImportDeclaration", source |-> source, specifiers |-> specifiers,
   elem |-> 0, comments |-> <<>>]

\* positions in the body of the import declarations from the icon package
ExistingMystiqueImports(stmts) ==
  {i \in 1..Len(stmts) : /\ stmts[i].type = "ImportDeclaration"
                         /\ stmts[i].source = mystiqueIconsPath}

\* existingMystiqueImport.get(0): the first of them
FirstMystiqueImport(stmts) ==
  CHOOSE i \in ExistingMystiqueImports(stmts) :
    \A k \in ExistingMystiqueImports(stmts) : i <= k

\* spec.imported.name fails for a specifier that has no `imported`
HasImported(spec) == spec.type = "ImportSpecifier"

\* the specifier list written into the existing declaration
MergedSpecifiers(existingSpecifiers, newNames) ==
  LET existingSpecifierNames ==
        {existingSpecifiers[i].imported : i \in 1..Len(existingSpecifiers)}
      allSpecifierNamesSorted == SortNames(existingSpecifierNames \cup newNames)
  IN [i \in 1..Len(allSpecifierNamesSorted) |->
        importSpecifier(allSpecifierNamesSorted[i])]

\* the specifier list of a new declaration
NewSpecifiers(newNames) ==
  LET sorted == SortNames(newNames)
  IN [i \in 1..Len(sorted) |-> importSpecifier(sorted[i])]

\* variant: only the import declarations the body begins with are counted
LastImportIndexAtTop(stmts) ==
  CHOOSE n \in 0..Len(stmts) :
    /\ \A k \in 1..n : stmts[k].type = "ImportDeclaration"
    /\ n < Len(stmts) => stmts[n + 1].type # "ImportDeclaration"

\* lastImportIndex, counted from 1 (0: the body has no import declaration)
LastImportIndex(stmts) ==
  IF \E i \in 1..Len(stmts) : stmts[i].type = "ImportDeclaration"
    THEN CHOOSE i \in 1..Len(stmts) :
           /\ stmts[i].type = "ImportDeclaration"
           /\ \A k \in (i + 1)..Len(stmts) : stmts[k].type # "ImportDeclaration"
    ELSE 0

\* body.splice(index, 0, stmt), index counted from 0
Splice(stmts, index, stmt) ==
  SubSeq(stmts, 1, index) \o <<stmt>> \o SubSeq(stmts, index + 1, Len(stmts))

\* c.value.includes('icon-prop-codemod:')
IncludesMarker(comment) == \E i \in 1..Len(comment) : comment[i] = MarkerToken

\* alreadyHasFileLevelComment
AlreadyHasFileLevelComment(programComments) ==
  \E i \in 1..Len(programComments) : IncludesMarker(programComments[i])

-----------------------------------------------------------------------------
(* Printing and parsing.  The transformer receives source text and returns *)
(* source text.  In the text a comment belongs to no node: the printer     *)
(* writes the Program node's comments first, and the parser attaches a     *)
(* comment to the statement that follows it, and to the Program node only  *)
(* when the body is empty.                                                 *)

ClearComments(stmt) == [stmt EXCEPT !.comments = <<>>]

\* root.toSource(): header is the comments above the first statement
toSource(h, stmts, programComments) ==
  [header |-> programComments \o (IF stmts = <<>> THEN <<>> ELSE stmts[1].comments),
   body |-> IF stmts = <<>> THEN <<>>
            ELSE <<ClearComments(stmts[1])>> \o Tail(stmts),
   nodes |-> [i \in 1..Len(h) |-> [h[i] EXCEPT !.attributes = Renumber(@)]]]

\* j(file.source)
parse(text) ==
  [nodes |-> text.nodes,
   body |-> IF text.body = <<>> THEN <<>>
            ELSE <<[text.body[1] EXCEPT !.comments = text.header]>> \o Tail(text.body),
   comments |-> IF text.body = <<>> THEN text.header ELSE <<>>]

-----------------------------------------------------------------------------
(* The transformer as a state machine *)

\* how many times the transformer is run over the file, each run on the
\* text the run before returned
MaxRuns == 2

NumComponents == Len(TARGET_COMPONENTS)

\* the state in which a run on a parsed tree starts (lines 338-343)
StartRun(tree, r, prev) ==
  /\ nodes = tree.nodes
  /\ body = tree.body
  /\ comments = tree.comments
  /\ input = tree
  /\ previous = prev
  /\ run = r
  /\ pc = "traverse"
  /\ ci = 0
  /\ queue = <<>>
  /\ fileHasSkippedItems = FALSE
  /\ trulyProblematicSkipOccurred = FALSE
  /\ importedIconNamesFromNewPackage = {}
  /\ visits = <<>>

\* TARGET_COMPONENTS.forEach: the next component's elements are looked up
FindElements ==
  /\ pc = "traverse"
  /\ queue = <<>>
  /\ ci < NumComponents
  /\ ci' = ci + 1
  /\ queue' = FoundElements(nodes, body, TARGET_COMPONENTS[ci + 1])
  /\ UNCHANGED <<mapVars, cliVars, treeVars, ledgerVars, pc, run, visits, input,
                 previous>>

\* variant: each callback invocation writes the flags anew
ApplyVisitOverwritingFlags(id, r) ==
  /\ nodes' = [nodes EXCEPT ![id].attributes = r.attributes] \o r.created
  /\ fileHasSkippedItems' = r.skipped
  /\ trulyProblematicSkipOccurred' = r.problem
  /\ importedIconNamesFromNewPackage' =
       importedIconNamesFromNewPackage \cup {r.added[i] : i \in 1..Len(r.added)}
  /\ visits' = Append(visits,
       [elem |-> id, component |-> getComponentName(nodes[id]),
        before |-> nodes[id].attributes, assigned |-> r.assigned,
        after |-> r.attributes, made |-> r.created, logged |-> r.logged,
        inner |-> r.inner,
        outcome |-> r.outcome, added |-> r.added, created |-> Len(r.created),
        skipped |-> r.skipped, problem |-> r.problem])
  /\ queue' = Tail(queue)
  /\ UNCHANGED <<mapVars, cliVars, body, comments, pc, run, ci, input, previous>>

\* the effect of one callback invocation on the state
ApplyVisit(id, r) ==
  /\ nodes' = [nodes EXCEPT ![id].attributes = r.attributes] \o r.created
  /\ fileHasSkippedItems' = (fileHasSkippedItems \/ r.skipped)
  /\ trulyProblematicSkipOccurred' = (trulyProblematicSkipOccurred \/ r.problem)
  /\ importedIconNamesFromNewPackage' =
       importedIconNamesFromNewPackage \cup {r.added[i] : i \in 1..Len(r.added)}
  /\ visits' = Append(visits,
       [elem |-> id, component |-> getComponentName(nodes[id]),
        before |-> nodes[id].attributes, assigned |-> r.assigned,
        after |-> r.attributes, made |-> r.created, logged |-> r.logged,
        inner |-> r.inner,
        outcome |-> r.outcome, added |-> r.added, created |-> Len(r.created),
        skipped |-> r.skipped, problem |-> r.problem])
  /\ queue' = Tail(queue)
  /\ UNCHANGED <<mapVars, cliVars, body, comments, pc, run, ci, input, previous>>

\* foundElements.forEach callback, TextButton branch
VisitTextButtonElement ==
  /\ pc = "traverse"
  /\ queue # <<>>
  /\ getComponentName(nodes[Head(queue)]) = TextButton
  /\ ApplyVisit(Head(queue),
                VisitTextButton(nodes[Head(queue)].attributes, Len(nodes)))

\* foundElements.forEach callback, icon prop branch
VisitIconPropElement ==
  /\ pc = "traverse"
  /\ queue # <<>>
  /\ getComponentName(nodes[Head(queue)]) # TextButton
  /\ ApplyVisit(Head(queue),
                VisitIconProp(nodes[Head(queue)].attributes,
                              getComponentName(nodes[Head(queue)]),
                              Len(nodes) + 1))

TraversalDone == pc = "traverse" /\ queue = <<>> /\ ci = NumComponents

\* the registry is empty: the imports are left alone
ImportsUntouched ==
  /\ TraversalDone
  /\ importedIconNamesFromNewPackage = {}
  /\ pc' = "comment"
  /\ UNCHANGED <<mapVars, cliVars, treeVars, ledgerVars, run, ci, queue, visits,
                 input, previous>>

\* the names are merged into the first existing import from the icon package
MergeIntoExistingImport ==
  /\ TraversalDone
  /\ importedIconNamesFromNewPackage # {}
  /\ ExistingMystiqueImports(body) # {}
  /\ LET i == FirstMystiqueImport(body)
     IN /\ \A k \in 1..Len(body[i].specifiers) : HasImported(body[i].specifiers[k])
        /\ body' = [body EXCEPT ![i].specifiers =
                      MergedSpecifiers(@, importedIconNamesFromNewPackage)]
  /\ pc' = "comment"
  /\ UNCHANGED <<mapVars, cliVars, nodes, comments, ledgerVars, run, ci, queue, visits,
                 input, previous>>

\* spec.imported.name on a default or namespace specifier: a TypeError ends
\* the run, nothing is returned
MergeThrows ==
  /\ TraversalDone
  /\ importedIconNamesFromNewPackage # {}
  /\ ExistingMystiqueImports(body) # {}
  /\ LET i == FirstMystiqueImport(body)
     IN \E k \in 1..Len(body[i].specifiers) : ~HasImported(body[i].specifiers[k])
  /\ pc' = "threw"
  /\ UNCHANGED <<mapVars, cliVars, treeVars, ledgerVars, run, ci, queue, visits,
                 input, previous>>

\* no import from the icon package yet: one is inserted after the last import
InsertNewImport ==
  /\ TraversalDone
  /\ importedIconNamesFromNewPackage # {}
  /\ ExistingMystiqueImports(body) = {}
  /\ body' = Splice(body, LastImportIndex(body),
                    importDeclaration(NewSpecifiers(importedIconNamesFromNewPackage),
                                      mystiqueIconsPath))
  /\ pc' = "comment"
  /\ UNCHANGED <<mapVars, cliVars, nodes, comments, ledgerVars, run, ci, queue, visits,
                 input, previous>>

\* the review comment, then return root.toSource(...)
AddReviewComment ==
  /\ pc = "comment"
  /\ comments' = IF /\ trulyProblematicSkipOccurred
                    /\ ~AlreadyHasFileLevelComment(comments)
                   THEN <<topLevelCommentText>> \o comments
                   ELSE comments
  /\ pc' = "done"
  /\ UNCHANGED <<mapVars, cliVars, nodes, body, ledgerVars, run, ci, queue, visits, input,
                 previous>>

\* the text this run returns
Output == toSource(nodes, body, comments)

\* the transformer is run again, on the text it returned
RunAgain ==
  /\ pc = "done"
  /\ run < MaxRuns
  /\ LET tree == parse(Output)
     IN /\ nodes' = tree.nodes
        /\ body' = tree.body
        /\ comments' = tree.comments
        /\ input' = tree
  /\ previous' = <<Output>>
  /\ run' = run + 1
  /\ pc' = "traverse"
  /\ ci' = 0
  /\ queue' = <<>>
  /\ fileHasSkippedItems' = FALSE
  /\ trulyProblematicSkipOccurred' = FALSE
  /\ importedIconNamesFromNewPackage' = {}
  /\ visits' = <<>>
  /\ UNCHANGED <<mapVars, cliVars>>

-----------------------------------------------------------------------------
(* The source files the transformer is run on *)

Home == <<"H","o","m","e">>
Settings == <<"S","e","t","t","i","n","g","s">>
ic_basic_home == ic_basic_ \o <<"h","o","m","e">>
ic_HOME == ic_ \o <<"H","O","M","E">>
ic_settings == ic_ \o <<"s","e","t","t","i","n","g","s">>
ic_unknown_icon == ic_ \o <<"u","n","k","n","o","w","n","_","i","c","o","n">>
ic_text_button == ic_ \o <<"t","e","x","t","_","b","u","t","t","o","n">>
iconVar == <<"i","c","o","n","V","a","r">>
themeBlue == <<"t","h","e","m","e",".","b","l","u","e">>
red == <<"r","e","d">>
rest == <<"r","e","s","t">>

\* icon strings written in the files
IconStrings ==
  {ic_basic_home, ic_HOME, ic_settings, <<>>, ic_, ic_unknown_icon, ic_text_button}

\* an element name node for a component name as written in the source
NameNode(componentName) ==
  LET parts == split(componentName, {"."})
  IN IF Len(parts) = 2 THEN jsxMemberExpression(parts[1], parts[2])
     ELSE jsxIdentifier(componentName)

\* The shapes of the icon attribute.  A shape is a kind and, where the kind
\* has one, an icon string.
Shape(kind, str) == [kind |-> kind, str |-> str]

PlainKinds ==
  {"absent", "exprString", "template", "jsx", "jsxTarget", "bareJsx",
   "identifier", "noValue", "objEmpty", "objIconColor", "objIconSize",
   "objIconSpread", "objNoIcon", "objSpreadOnly", "objIconVar", "objStringKey",
   "objPrefixIcon", "objNested", "objDropNested", "objTwoSizes",
   "objIconColorSize"}

Shapes ==
  {Shape(k, ic_basic_home) : k \in PlainKinds}
    \cup {Shape("string", str) : str \in IconStrings}
    \cup {Shape("objIcon", str) : str \in {ic_basic_home, ic_, ic_settings}}

\* the elements a shape nests in the icon attribute
ShapeNested(shape) ==
  CASE shape.kind \in {"jsx", "bareJsx"} -> <<jsxElement(jsxIdentifier(Home), <<>>)>>
    [] shape.kind = "jsxTarget" ->
         <<jsxElement(NameNode(BottomNavItem),
                      Renumber(<<jsxAttribute("icon", stringLiteral(ic_settings))>>))>>
    [] shape.kind \in {"objNested", "objDropNested"} ->
         <<jsxElement(NameNode(NavBarIcon),
                      Renumber(<<jsxAttribute("icon", stringLiteral(ic_settings))>>))>>
    [] OTHER -> <<>>

IconObject(props) == jsxExpressionContainer(objectExpression(props))

\* the value of the icon attribute; base + 1 is the identity of the element
\* it nests
IconValue(shape, base) ==
  LET iconProp == objectProperty("icon", stringLiteral(shape.str))
  IN CASE shape.kind = "string" -> stringLiteral(shape.str)
       [] shape.kind = "exprString" -> jsxExpressionContainer(stringLiteral(shape.str))
       [] shape.kind = "template" -> jsxExpressionContainer(templateLiteral(shape.str, 1))
       [] shape.kind \in {"jsx", "jsxTarget"} ->
            jsxExpressionContainer(jsxElementRef(base + 1))
       [] shape.kind = "bareJsx" -> jsxElementRef(base + 1)
       [] shape.kind = "identifier" -> jsxExpressionContainer(identifier(iconVar))
       [] shape.kind = "noValue" -> NoNode
       [] shape.kind = "objEmpty" -> IconObject(<<>>)
       [] shape.kind = "objIcon" -> IconObject(<<iconProp>>)
       [] shape.kind = "objIconColor" ->
            IconObject(<<iconProp, objectProperty("color", memberExpression(themeBlue))>>)
       [] shape.kind = "objIconSize" ->
            IconObject(<<objectProperty("size", literal(24)), iconProp>>)
       [] shape.kind = "objIconSpread" ->
            IconObject(<<iconProp, spreadElement(identifier(rest))>>)
       [] shape.kind = "objNoIcon" ->
            IconObject(<<objectProperty("color", stringLiteral(red))>>)
       [] shape.kind = "objSpreadOnly" -> IconObject(<<spreadElement(identifier(rest))>>)
       [] shape.kind = "objIconVar" ->
            IconObject(<<objectProperty("icon", identifier(iconVar))>>)
       [] shape.kind = "objStringKey" ->
            IconObject(<<iconProp, stringKeyProperty(stringLiteral(red))>>)
       [] shape.kind = "objPrefixIcon" ->
            IconObject(<<objectProperty("icon", stringLiteral(ic_text_button)),
                         objectProperty("prefixIcon", stringLiteral(shape.str))>>)
       [] shape.kind = "objIconColorSize" ->
            IconObject(<<iconProp, objectProperty("color", memberExpression(themeBlue)),
                         objectProperty("size", literal(32))>>)
       [] shape.kind = "objTwoSizes" ->
            IconObject(<<iconProp, objectProperty("size", literal(24)),
                         objectProperty("size", literal(32))>>)
       [] shape.kind = "objNested" ->
            IconObject(<<iconProp, objectProperty("badge", jsxElementRef(base + 1))>>)
       [] shape.kind = "objDropNested" ->
            IconObject(<<iconProp, stringKeyProperty(jsxElementRef(base + 1))>>)

IconAttributes(shape, base) ==
  IF shape.kind = "absent" THEN <<>>
  ELSE <<jsxAttribute("icon", IconValue(shape, base))>>

\* The other attributes of an element: those written before the icon
\* attribute and those written after it.
Extras ==
  {"none", "label", "color", "size", "colorSize", "twoColors", "nestedLabel",
   "sizeLabelColor", "prefix", "prefixEmpty", "prefixUnknown", "prefixJsx", "prefixVar",
   "prefixEmptyObject", "prefixBare",
   "prefixSuffix"}

ExtraNested(extra) ==
  CASE extra = "nestedLabel" ->
         <<jsxElement(NameNode(NavBarIcon),
                      Renumber(<<jsxAttribute("icon", stringLiteral(ic_settings))>>))>>
    [] extra = "prefixJsx" -> <<jsxElement(jsxIdentifier(Home), <<>>)>>
    [] OTHER -> <<>>

colorRed == jsxAttribute("color", stringLiteral(red))
colorBlue == jsxAttribute("color", jsxExpressionContainer(memberExpression(themeBlue)))
size24 == jsxAttribute("size", jsxExpressionContainer(literal(24)))
labelX == jsxAttribute("label", stringLiteral(<<"x">>))

ExtrasBefore(extra, base) ==
  CASE extra = "label" -> <<labelX>>
    [] extra = "size" -> <<size24>>
    [] extra = "sizeLabelColor" -> <<size24, labelX>>
    [] extra = "colorSize" -> <<colorRed>>
    [] extra = "twoColors" -> <<colorRed>>
    [] extra = "nestedLabel" ->
         <<jsxAttribute("label", jsxExpressionContainer(jsxElementRef(base + 1)))>>
    [] extra = "prefix" -> <<jsxAttribute("prefixIcon", stringLiteral(ic_basic_home))>>
    [] extra = "prefixEmpty" -> <<jsxAttribute("prefixIcon", stringLiteral(<<>>))>>
    [] extra = "prefixUnknown" -> <<jsxAttribute("prefixIcon", stringLiteral(ic_))>>
    [] extra = "prefixJsx" ->
         <<jsxAttribute("prefixIcon", jsxExpressionContainer(jsxElementRef(base + 1)))>>
    [] extra = "prefixEmptyObject" -> <<jsxAttribute("prefixIcon", IconObject(<<>>))>>
    [] extra = "prefixBare" -> <<jsxAttribute("prefixIcon", NoNode)>>
    [] extra = "prefixVar" ->
         <<jsxAttribute("prefixIcon", jsxExpressionContainer(identifier(iconVar)))>>
    [] extra = "prefixSuffix" ->
         <<jsxAttribute("prefixIcon", stringLiteral(ic_settings))>>
    [] OTHER -> <<>>

ExtrasAfter(extra) ==
  CASE extra = "label" -> <<jsxSpreadAttribute(identifier(rest))>>
    [] extra = "color" -> <<colorRed>>
    [] extra = "sizeLabelColor" -> <<jsxSpreadAttribute(identifier(rest)), colorRed>>
    [] extra = "colorSize" -> <<size24>>
    [] extra = "twoColors" -> <<colorBlue>>
    [] extra = "prefixSuffix" ->
         <<labelX, jsxAttribute("suffixIcon", stringLiteral(ic_basic_home))>>
    [] OTHER -> <<>>

\* An element as written in a file: component, icon shape, other attributes
Template(comp, shape, extra) == [comp |-> comp, shape |-> shape, extra |-> extra]

NestedOf(t) == ShapeNested(t.shape) \o ExtraNested(t.extra)

\* the element of a template; the elements it nests get the identities
\* base + 1, base + 2
RootOf(t, base) ==
  jsxElement(NameNode(t.comp),
             Renumber(ExtrasBefore(t.extra, base + Len(ShapeNested(t.shape)))
                      \o IconAttributes(t.shape, base)
                      \o ExtrasAfter(t.extra)))

RECURSIVE NestedBefore(_, _)
NestedBefore(ts, j) ==
  IF j <= 1 THEN 0 ELSE NestedBefore(ts, j - 1) + Len(NestedOf(ts[j - 1]))

RECURSIVE AllNested(_)
AllNested(ts) == IF ts = <<>> THEN <<>> ELSE NestedOf(Head(ts)) \o AllNested(Tail(ts))

expressionStatement(id) ==
  [type |-> "ExpressionStatement", source |-> "", specifiers |-> <<>>,
   elem |-> id, comments |-> <<>>]

\* the text of a file: comments at its top, imports, one statement per
\* template, then the statements in `trailing`
SourceFile(header, imports, ts, trailing) ==
  [header |-> header,
   body |-> imports \o [j \in 1..Len(ts) |-> expressionStatement(j)] \o trailing,
   nodes |-> [j \in 1..Len(ts) |-> RootOf(ts[j], Len(ts) + NestedBefore(ts, j))]
             \o AllNested(ts)]

\* Files with one element: every component with the main shapes, and two
\* components and TextButton with every shape and every other attribute list
CoreShapes ==
  {Shape("absent", ic_basic_home), Shape("string", ic_basic_home),
   Shape("string", <<>>), Shape("jsx", ic_basic_home),
   Shape("identifier", ic_basic_home), Shape("objIconColor", ic_basic_home)}

CoreExtras == {"none", "colorSize", "prefix"}

IconExtras ==
  {"none", "label", "color", "size", "colorSize", "twoColors", "nestedLabel",
   "sizeLabelColor"}

TargetSet == {TARGET_COMPONENTS[i] : i \in 1..Len(TARGET_COMPONENTS)}

OneElementTemplates ==
  {Template(c, sh, x) : c \in TargetSet, sh \in CoreShapes, x \in CoreExtras}
    \cup {Template(c, sh, x) : c \in {NavBarIcon, BottomNavItem}, sh \in Shapes,
                               x \in IconExtras}
    \cup {Template(TextButton, sh, x) :
            sh \in {Shape("absent", ic_basic_home), Shape("string", ic_basic_home)},
            x \in Extras}

OneElementFiles == {SourceFile(<<>>, <<>>, <<t>>, <<>>) : t \in OneElementTemplates}

\* Files with several elements, imports and comments
MaxElems == 2

SiblingTemplates ==
  {Template(NavBarIcon, Shape("string", ic_basic_home), "none"),
   Template(BottomNavItem, Shape("string", ic_settings), "color"),
   Template(CardHeaderIcon, Shape("identifier", ic_basic_home), "none"),
   Template(TextButton, Shape("string", ic_basic_home), "prefix"),
   Template(BasicCardHeader, Shape("jsx", ic_basic_home), "none")}

TemplateLists == UNION {[1..k -> SiblingTemplates] : k \in 0..MaxElems}

react == "react"

importOf(source, specifiers) == importDeclaration(specifiers, source)

aliasSpecifier(imported, local) ==
  [type |-> "ImportSpecifier", imported |-> imported, local |-> local]
defaultSpecifier(local) ==
  [type |-> "ImportDefaultSpecifier", imported |-> <<>>, local |-> local]

ReactImport == importOf(react, <<defaultSpecifier(<<"R">>)>>)

\* the import declarations at the top of a file
ImportLists ==
  {<<>>,
   <<ReactImport>>,
   <<ReactImport, importOf(mystiqueIconsPath, <<importSpecifier(Home)>>)>>,
   <<importOf(mystiqueIconsPath, <<aliasSpecifier(Settings, <<"S">>),
                                  importSpecifier(Home)>>), ReactImport>>,
   <<importOf(mystiqueIconsPath, <<defaultSpecifier(<<"I">>), importSpecifier(Home)>>)>>}

\* statements after the elements: none, or an import written late
TrailingLists == {<<>>, <<ReactImport>>}

licenseComment == <<"Copyright">>

\* the comments at the top of a file: none, the review comment of an
\* earlier run of the codemod, another comment
Headers == {<<>>, <<topLevelCommentText>>, <<licenseComment>>}

SeveralElementFiles ==
  {SourceFile(h, im, ts, <<>>) : h \in Headers, im \in ImportLists, ts \in TemplateLists}
    \cup {SourceFile(<<>>, <<>>, ts, tr) : ts \in TemplateLists, tr \in TrailingLists}

SourceFiles == OneElementFiles \cup SeveralElementFiles

\* the files the transformer is given after another file, in the same process
SecondFiles ==
  {SourceFile(<<>>, <<>>, <<>>, <<>>),
   SourceFile(<<>>, <<ReactImport>>,
              <<Template(BottomNavItem, Shape("string", ic_settings), "none")>>, <<>>),
   SourceFile(<<licenseComment>>,
              <<importOf(mystiqueIconsPath, <<importSpecifier(Settings)>>)>>,
              <<Template(NavBarIcon, Shape("jsx", ic_basic_home), "none")>>, <<>>),
   SourceFile(<<>>, <<>>,
              <<Template(TextButton, Shape("absent", ic_basic_home), "prefixVar")>>, <<>>)}

\* variant: the registry and the flags are kept from the file before
NextFileKeepingLedger ==
  /\ pc = "done"
  /\ run < MaxRuns
  /\ \E file \in SecondFiles :
       LET tree == parse(file)
       IN /\ nodes' = tree.nodes
          /\ body' = tree.body
          /\ comments' = tree.comments
          /\ input' = tree
  /\ previous' = <<>>
  /\ run' = run + 1
  /\ pc' = "traverse"
  /\ ci' = 0
  /\ queue' = <<>>
  /\ visits' = <<>>
  /\ UNCHANGED <<mapVars, cliVars, ledgerVars>>

\* the transformer is called for the next file of the same jscodeshift
\* process: a new call, with its own registry and flags
NextFile ==
  /\ pc = "done"
  /\ run < MaxRuns
  /\ \E file \in SecondFiles :
       LET tree == parse(file)
       IN /\ nodes' = tree.nodes
          /\ body' = tree.body
          /\ comments' = tree.comments
          /\ input' = tree
  /\ previous' = <<>>
  /\ run' = run + 1
  /\ pc' = "traverse"
  /\ ci' = 0
  /\ queue' = <<>>
  /\ fileHasSkippedItems' = FALSE
  /\ trulyProblematicSkipOccurred' = FALSE
  /\ importedIconNamesFromNewPackage' = {}
  /\ visits' = <<>>
  /\ UNCHANGED <<mapVars, cliVars>>

-----------------------------------------------------------------------------
(* The command line runner (bin/cli.js) *)

NoExit == -1

icon == "icon"
iconProp == "icon-prop"

\* SCRIPT_MAP: the transform file of a script key
SCRIPT_MAP ==
  [k \in {icon, iconProp} |->
     IF k = icon THEN "../transforms/icon-transform.cjs"
     ELSE "../transforms/icon-prop-to-component-transform.cjs"]

\* what the runner writes
RunningTransform == "Running transform"
FinishedSuccessfully == "Mystique Icon codemod finished successfully!"
CodemodFailed == "Mystique Icon codemod failed:"

\* how often -v is given at most
MaxVerbose == 2

\* the options as yargs hands them to the command handler
Argvs ==
  [script : {icon, iconProp},
   paths : {<<"./src">>, <<"./src", "./app">>},
   dryRun : BOOLEAN,
   verbose : 0..MaxVerbose,
   print : BOOLEAN,
   extensions : {"", "tsx,ts"},
   parser : {"tsx", "babylon"}]

\* the argument array for jscodeshift
JscodeshiftArgs(a) ==
  <<"-t", SCRIPT_MAP[a.script]>> \o a.paths
    \o (IF a.dryRun THEN <<"--dry">> ELSE <<>>)
    \o (IF a.verbose # 0 THEN <<"--verbose", ToString(a.verbose)>> ELSE <<>>)
    \o (IF a.print THEN <<"--print">> ELSE <<>>)
    \o (IF a.extensions # "" THEN <<"--extensions", a.extensions>> ELSE <<>>)
    \o (IF a.parser # "" THEN <<"--parser", a.parser>> ELSE <<>>)

\* the runner is not part of the run
CliIdle ==
  /\ cliPc = "idle"
  /\ argv = [script |-> icon, paths |-> <<>>, dryRun |-> FALSE, verbose |-> 0,
             print |-> FALSE, extensions |-> "", parser |-> ""]
  /\ args = <<>>
  /\ child = "none"
  /\ printed = <<>>
  /\ exitStatus = NoExit

\* the command handler, from its first line to its last: the arguments are
\* built, execa(...) starts the child and returns a promise that nobody
\* awaits, and the next statement of the try block prints the success line
CommandHandler ==
  /\ cliPc = "handler"
  /\ args' = JscodeshiftArgs(argv)
  /\ child' = "running"
  /\ printed' = printed \o <<RunningTransform, FinishedSuccessfully>>
  /\ cliPc' = "waiting"
  /\ UNCHANGED <<mapVars, treeVars, ledgerVars, runVars, argv, exitStatus>>

\* jscodeshift exits with status 0: the promise resolves, nothing is left to
\* do and the runner's process ends
ChildSucceeds ==
  /\ cliPc = "waiting"
  /\ child = "running"
  /\ child' = "succeeded"
  /\ exitStatus' = 0
  /\ cliPc' = "exited"
  /\ UNCHANGED <<mapVars, treeVars, ledgerVars, runVars, argv, args, printed>>

\* jscodeshift fails: the promise rejects outside the try block, which was
\* left long ago, so the catch clause never runs.  What the unhandled
\* rejection does to the process is the Node version's choice: it ends the
\* process with status 1, or it is a warning and the process ends with 0.
ChildFails ==
  /\ cliPc = "waiting"
  /\ child = "running"
  /\ child' = "failed"
  /\ exitStatus' \in {0, 1}
  /\ cliPc' = "exited"
  /\ UNCHANGED <<mapVars, treeVars, ledgerVars, runVars, argv, args, printed>>

-----------------------------------------------------------------------------
(* Specifications *)

Init ==
  /\ mapIn = JsNull
  /\ mapOut = <<>>
  /\ CliIdle
  /\ \E file \in SourceFiles : StartRun(parse(file), 1, <<>>)

Next ==
  \/ FindElements
  \/ VisitTextButtonElement
  \/ VisitIconPropElement
  \/ ImportsUntouched
  \/ MergeIntoExistingImport
  \/ MergeThrows
  \/ InsertNewImport
  \/ AddReviewComment
  \/ RunAgain
  \/ NextFile

Spec == Init /\ [][Next]_vars

(* The identifier mapper alone, on every string of a bounded family *)

\* length of the text after the prefix
MaxRemLen == 3

MapAlphabet == {"a", "B", "_", "-"}

MapPrefixes == {<<>>, ic_, ic_basic_, ic_outline_, ic_basic_outline_}

MapWords ==
  {<<"c","h","e","v","r","o","n","_","l","e","f","t">>,
   <<"f","i","l","l","_","i","n","f","o">>,
   <<"H","O","M","E">>,
   <<"u","n","k","n","o","w","n","_","i","c","o","n">>,
   <<"t","e","x","t","-","b","u","t","t","o","n">>}

MapRemainders ==
  MapWords \cup UNION {[1..k -> MapAlphabet] : k \in 0..MaxRemLen}

MapInputs ==
  {JsNull, JsUndefined, JsNumber(0), JsNumber(7)}
    \cup {JsString(p \o r) : p \in MapPrefixes, r \in MapRemainders}

MapInit ==
  /\ mapIn \in MapInputs
  /\ mapOut = <<>>
  /\ CliIdle
  /\ StartRun(parse(SourceFile(<<>>, <<>>, <<>>, <<>>)), 1, <<>>)

\* getNewIconComponentName(mapIn) is called
CallMapper ==
  /\ mapOut = <<>>
  /\ mapOut' = <<getNewIconComponentName(mapIn)>>
  /\ UNCHANGED <<mapIn, treeVars, ledgerVars, runVars, cliVars>>

MapNext == CallMapper

MapSpec == MapInit /\ [][MapNext]_vars

(* The command line runner alone *)

CliInit ==
  /\ mapIn = JsNull
  /\ mapOut = <<>>
  /\ StartRun(parse(SourceFile(<<>>, <<>>, <<>>, <<>>)), 1, <<>>)
  /\ cliPc = "handler"
  /\ argv \in Argvs
  /\ args = <<>>
  /\ child = "none"
  /\ printed = <<>>
  /\ exitStatus = NoExit

CliNext ==
  \/ CommandHandler
  \/ ChildSucceeds
  \/ ChildFails

CliSpec == CliInit /\ [][CliNext]_vars

-----------------------------------------------------------------------------
(* Properties *)

VisitIndexes == 1..Len(visits)

\* the traversal of this run is over
AfterTraversal == TraversalDone \/ pc \in {"comment", "done", "threw"}

\* a run after the first has returned
RepeatedRunDone == pc = "done" /\ run >= 2 /\ previous # <<>>

IsIconAttribute(a) == a.type = "JSXAttribute" /\ a.name = "icon"
IconAttributesOf(attrs) == SelectSeq(attrs, IsIconAttribute)

\* the elements of the file as this run received it
InputElements == 1..Len(input.nodes)

\* the value is a JSX element of the given name, written in braces
IsIconElementValue(h, v, name) ==
  /\ v.type = "JSXExpressionContainer"
  /\ v.expression # <<>>
  /\ v.expression[1].type = "JSXElement"
  /\ h[v.expression[1].elem].name = jsxIdentifier(name)

\* C1: running the transformer on the text it returned returns that text
\* again: no element is rewritten, the imports and the comments at the top
\* of the file stay as they are.
C1_Idempotent == RepeatedRunDone => Output = previous[1]

\* C2: an element that no visit rewrote has, in every state of the run, the
\* attribute list it had when the run started: the same attribute nodes with
\* the same values in the same order.
C2_UnrewrittenUntouched ==
  \A id \in InputElements :
    (~ \E i \in VisitIndexes : visits[i].elem = id /\ visits[i].outcome = "Rewritten")
      => nodes[id].attributes = input.nodes[id].attributes

\* a run is over in which an element with several attributes was skipped
\* with a warning and another one without
C2_Witness ==
  /\ pc = "done"
  /\ \E i \in VisitIndexes :
       /\ visits[i].outcome = "SkippedWithWarning"
       /\ Len(visits[i].before) >= 2
       /\ IconAttributesOf(visits[i].before) # <<>>
       /\ visits[i].before[Len(visits[i].before)].name # "icon"

\* what the classifier makes of an attribute list: an icon name that maps to
\* a usable component name
ClassifiedName(attrs) == getNewIconComponentName(parseComponentAttributes(attrs).iconPropValue)
ClassifiedRewritable(attrs) ==
  LET parsedProps == parseComponentAttributes(attrs)
  IN /\ parsedProps.iconAttributeNode # NoAttr
     /\ ~parsedProps.isUnhandledIconProp
     /\ parsedProps.iconPropValue # JsNull
     /\ ClassifiedName(attrs) # UnknownIcon

\* every element of the file that is still in the tree and is an instance of
\* a target component has been handed to the callback
EveryTargetVisited ==
  \A id \in InputElements :
    ( /\ \E k \in 1..Len(ElemsOfBody(nodes, body)) : ElemsOfBody(nodes, body)[k] = id
      /\ getComponentName(input.nodes[id]) \in TargetSet )
      => \E i \in VisitIndexes : visits[i].elem = id

\* C3: an element that the classifier gives a literal or object-form icon
\* name mapping to a usable component name is rewritten by its visit, which
\* adds exactly that one name to the registry; no element is visited twice,
\* nested or not, and the rewritten element keeps its one new icon attribute.
C3_RewrittenOnce ==
  /\ \A i, k \in VisitIndexes : visits[i].elem = visits[k].elem => i = k
  /\ \A i \in VisitIndexes :
       (visits[i].component # TextButton /\ ClassifiedRewritable(visits[i].before))
         => /\ visits[i].outcome = "Rewritten"
            /\ visits[i].created = 1
            /\ visits[i].added = <<ClassifiedName(visits[i].before)>>
            /\ ClassifiedName(visits[i].before) \in importedIconNamesFromNewPackage
            /\ LET now == IconAttributesOf(nodes[visits[i].elem].attributes)
               IN /\ Len(now) = 1
                  /\ IsIconElementValue(nodes, now[1].value,
                                        ClassifiedName(visits[i].before))
  /\ AfterTraversal => EveryTargetVisited

\* a run is over in which an element and an element nested in one of its
\* attributes were both rewritten
C3_Witness ==
  /\ pc = "done"
  /\ \E i, k \in VisitIndexes :
       /\ i # k
       /\ visits[i].outcome = "Rewritten"
       /\ visits[k].outcome = "Rewritten"
       /\ visits[i].component # TextButton
       /\ \E n \in 1..Len(ElemsOfAttrs(input.nodes, visits[i].before)) :
            ElemsOfAttrs(input.nodes, visits[i].before)[n] = visits[k].elem

\* the element has exactly one icon attribute, a plain string literal that
\* maps to a usable component name
HasPlainIconString(attrs) ==
  /\ Len(IconAttributesOf(attrs)) = 1
  /\ IconAttributesOf(attrs)[1].value.type = "StringLiteral"
  /\ getNewIconComponentName(JsString(IconAttributesOf(attrs)[1].value.str)) # UnknownIcon

PlainIconName(attrs) ==
  getNewIconComponentName(JsString(IconAttributesOf(attrs)[1].value.str))

\* the visit rewrote the icon attribute into an element of the mapped name
\* and registered the name
EndsRewritten(v) ==
  /\ v.outcome = "Rewritten"
  /\ LET now == IconAttributesOf(nodes[v.elem].attributes)
     IN /\ Len(now) = 1
        /\ IsIconElementValue(nodes, now[1].value, PlainIconName(v.before))
  /\ PlainIconName(v.before) \in importedIconNamesFromNewPackage

\* C4 as stated: every instance of every target component, TextButton
\* included, whose icon attribute is a plain string literal that maps to a
\* usable name ends rewritten.
C4_EveryTargetRewritten ==
  /\ \A i \in VisitIndexes :
       HasPlainIconString(visits[i].before) => EndsRewritten(visits[i])
  /\ AfterTraversal => EveryTargetVisited

\* C4 amended: every instance of a target component that is in the tree when
\* its component is processed is visited; if it is no TextButton and its only
\* icon attribute is a plain string literal that maps to a usable name, it
\* ends rewritten; a TextButton keeps its icon attributes as they were.
C4_TargetsButTextButtonRewritten ==
  /\ \A i \in VisitIndexes :
       /\ (visits[i].component # TextButton /\ HasPlainIconString(visits[i].before))
            => EndsRewritten(visits[i])
       /\ visits[i].component = TextButton
            => IconAttributesOf(nodes[visits[i].elem].attributes)
                 = IconAttributesOf(visits[i].before)
  /\ AfterTraversal => EveryTargetVisited

\* a run is over that rewrote an instance of a dotted component with a plain
\* icon string and visited a TextButton that has one
C4_Witness ==
  /\ pc = "done"
  /\ \E i \in VisitIndexes :
       /\ visits[i].component = TextButton
       /\ HasPlainIconString(visits[i].before)
  /\ \E i \in VisitIndexes :
       /\ visits[i].component = NavBarIcon
       /\ HasPlainIconString(visits[i].before)
       /\ visits[i].outcome = "Rewritten"

\* the value is one of the three literal shapes of an icon name
IsLiteralShape(v) ==
  \/ v.type = "StringLiteral"
  \/ /\ v.type = "JSXExpressionContainer"
     /\ v.expression # <<>>
     /\ \/ v.expression[1].type = "StringLiteral"
        \/ v.expression[1].type = "TemplateLiteral" /\ v.expression[1].num = 1

LiteralText(v) == IF v.type = "StringLiteral" THEN v.str ELSE v.expression[1].str

\* C5 as stated: an element (no TextButton) whose only icon attribute is a
\* plain string, a string literal in braces or a template literal with one
\* segment, naming a usable icon, is classified as a literal name and rewritten.
C5_LiteralShapesRewritten ==
  \A i \in VisitIndexes :
    LET icons == IconAttributesOf(visits[i].before)
    IN ( /\ visits[i].component # TextButton
         /\ Len(icons) = 1
         /\ IsLiteralShape(icons[1].value)
         /\ getNewIconComponentName(JsString(LiteralText(icons[1].value))) # UnknownIcon )
         => /\ visits[i].outcome = "Rewritten"
            /\ visits[i].added =
                 <<getNewIconComponentName(JsString(LiteralText(icons[1].value)))>>

\* the component name made of the text left after the prefix
NameOrUnknown(remainder) ==
  LET joined == JoinParts(split(remainder, NameSeparators))
  IN IF joined = <<>> THEN UnknownIcon ELSE joined

\* s without the first of the given prefixes that it starts with
RECURSIVE StripFirstOf(_, _)
StripFirstOf(s, prefixes) ==
  IF prefixes = <<>> THEN s
  ELSE IF startsWith(s, Head(prefixes)) THEN substring(s, Len(Head(prefixes)))
  ELSE StripFirstOf(s, Tail(prefixes))

\* s without the longest of the given prefixes that it starts with
StripLongestOf(s, prefixes) ==
  LET matching == {p \in prefixes : startsWith(s, p)}
  IN IF matching = {} THEN s
     ELSE substring(s, Len(CHOOSE p \in matching : \A q \in matching : Len(q) <= Len(p)))

\* the mapper was called on a non-empty string
MappedString == mapOut # <<>> /\ mapIn.kind = "string" /\ mapIn.str # <<>>

chevron_left == <<"c","h","e","v","r","o","n","_","l","e","f","t">>
ChevronLeft == <<"C","h","e","v","r","o","n","L","e","f","t">>
OutlineChevronLeft == <<"O","u","t","l","i","n","e">> \o ChevronLeft

\* C6 as stated: the mapper strips the first match of ic_basic_outline_,
\* ic_outline_, ic_basic_, ic_, so that ic_basic_outline_chevron_left maps to
\* ChevronLeft.
C6_FourPrefixes ==
  MappedString =>
    /\ mapOut[1] = NameOrUnknown(StripFirstOf(mapIn.str,
                     <<ic_basic_outline_, ic_outline_, ic_basic_, ic_>>))
    /\ mapIn.str = ic_basic_outline_ \o chevron_left => mapOut[1] = ChevronLeft

\* C6 amended: the mapper strips the longest of the two prefixes ic_basic_
\* and ic_ that the string starts with, and only that one, so that
\* ic_basic_outline_chevron_left maps to OutlineChevronLeft.
C6_TwoPrefixes ==
  MappedString =>
    /\ mapOut[1] = NameOrUnknown(StripLongestOf(mapIn.str, {ic_basic_, ic_}))
    /\ mapIn.str = ic_basic_outline_ \o chevron_left => mapOut[1] = OutlineChevronLeft

\* the mapper was called on ic_basic_outline_chevron_left
C6_Witness ==
  /\ mapOut # <<>>
  /\ mapIn = JsString(ic_basic_outline_ \o chevron_left)

\* every - replaced by _
ReplaceDash(r) == [i \in 1..Len(r) |-> IF r[i] = "-" THEN "_" ELSE r[i]]

\* The name spelled out character by character: the characters of r other
\* than _ in their order, one that starts r or follows a _ in upper case,
\* every other one in lower case.
CapitalizedSegments(r) ==
  LET kept == SelectSeq([i \in 1..Len(r) |-> i], LAMBDA i : r[i] # "_")
  IN [k \in 1..Len(kept) |->
        IF kept[k] = 1 \/ r[kept[k] - 1] = "_"
          THEN toUpperCase(r[kept[k]])
          ELSE toLowerCase(r[kept[k]])]

FillInfo == <<"F","i","l","l","I","n","f","o">>

C8_MapperTotal ==
  /\ mapOut = <<>> => ENABLED CallMapper
  /\ mapOut # <<>> =>
       /\ Len(mapOut[1]) >= 1
       /\ ( \/ mapIn.kind # "string"
            \/ mapIn \in {JsString(<<>>), JsString(ic_)}
            \/ \A i \in 1..Len(StripPrefix(mapIn.str)) :
                 StripPrefix(mapIn.str)[i] \in {"_", "-"} )
            => mapOut[1] = UnknownIcon

\* the mapper was called on ic_ and returned UnknownIcon
C8_Witness == mapIn = JsString(ic_) /\ mapOut = <<UnknownIcon>>

\* the attributes that name an icon: prefixIcon and suffixIcon on a
\* TextButton, icon elsewhere
IconBearingNames(component) ==
  IF component = TextButton THEN {"prefixIcon", "suffixIcon"} ELSE {"icon"}

\* how many comments of the file hold the marker token, wherever attached
RECURSIVE MarkersOfBody(_)
MarkersOfBody(stmts) ==
  IF stmts = <<>> THEN 0
  ELSE Len(SelectSeq(Head(stmts).comments, IncludesMarker)) + MarkersOfBody(Tail(stmts))

MarkerCount(stmts, programComments) ==
  Len(SelectSeq(programComments, IncludesMarker)) + MarkersOfBody(stmts)

\* C9 as stated: an element with an icon string that maps to UnknownIcon
\* keeps that attribute (every attribute, if it is no TextButton), adds
\* nothing to the registry for it, and sets the review flag, so that the file
\* is returned with the review comment.
C9_UnknownIconFlagged ==
  \A i \in VisitIndexes :
    \A n \in 1..Len(visits[i].before) :
      LET a == visits[i].before[n]
      IN ( /\ a.type = "JSXAttribute"
           /\ a.name \in IconBearingNames(visits[i].component)
           /\ a.value.type = "StringLiteral"
           /\ getNewIconComponentName(JsString(a.value.str)) = UnknownIcon
           /\ \A m \in 1..Len(visits[i].before) :
                visits[i].before[m].name = a.name => m = n )
           => /\ Includes(nodes[visits[i].elem].attributes, a)
              /\ visits[i].component # TextButton
                   => /\ nodes[visits[i].elem].attributes = visits[i].before
                      /\ visits[i].added = <<>>
              /\ UnknownIcon \notin importedIconNamesFromNewPackage
              /\ visits[i].problem
              /\ trulyProblematicSkipOccurred
              /\ pc = "done" => AlreadyHasFileLevelComment(Output.header)

\* the icon value is a JSX element, in braces or not
IsJsxElementValue(v) ==
  \/ v.type = "JSXElement"
  \/ /\ v.type = "JSXExpressionContainer"
     /\ v.expression # <<>>
     /\ v.expression[1].type = "JSXElement"

\* C10 as stated: an element (no TextButton) whose icon value is a JSX
\* element already is left as it is, adds nothing to the registry and does
\* not set the review flag; when every skip of the run was of that kind the
\* file gets no review comment.
C10_AlreadyJsxSilent ==
  /\ \A i \in VisitIndexes :
       LET icons == IconAttributesOf(visits[i].before)
       IN ( /\ visits[i].component # TextButton
            /\ Len(icons) = 1
            /\ IsJsxElementValue(icons[1].value) )
            => /\ nodes[visits[i].elem].attributes = visits[i].before
               /\ visits[i].added = <<>>
               /\ ~visits[i].problem
  /\ ( /\ pc = "done"
       /\ \A i \in VisitIndexes :
            visits[i].skipped =>
              /\ visits[i].component # TextButton
              /\ Len(IconAttributesOf(visits[i].before)) = 1
              /\ IsJsxElementValue(IconAttributesOf(visits[i].before)[1].value) )
       => MarkerCount(body, comments) = MarkerCount(input.body, input.comments)

-----------------------------------------------------------------------------
(* Rewritten elements: what the outer element and the inner icon hold *)

\* the visits of this run that took the rewrite path of the icon prop branch
IconRewrites ==
  {i \in VisitIndexes : /\ visits[i].outcome = "Rewritten"
                        /\ visits[i].component # TextButton}

\* an attribute without its identity: name and value only
Unid(a) == [a EXCEPT !.id = 0]
UnidAll(attrs) == [k \in 1..Len(attrs) |-> Unid(attrs[k])]

Named(attrs, name) ==
  SelectSeq(attrs, LAMBDA a : a.type = "JSXAttribute" /\ a.name = name)

\* the attributes the visit i left on the outer element
OuterAfter(i) == visits[i].after

\* the new icon attribute of a rewritten element: the one the transformer built
NewIconAttributes(i) ==
  SelectSeq(OuterAfter(i), LAMBDA a : IsIconAttribute(a) /\ a.id = 0)

\* the attributes of the inner icon element the visit i built
InnerMade(i) == visits[i].made[1].attributes

\* the members of the object literal of the icon attribute as written, and
\* those of them that are written `name: value`
ObjectMembers(before) ==
  LET v == IconAttributesOf(before)[1].value
  IN IF /\ v.type = "JSXExpressionContainer"
        /\ v.expression # <<>>
        /\ v.expression[1].type = "ObjectExpression"
       THEN v.expression[1].properties ELSE <<>>

ObjectSupplied(before, name) ==
  SelectSeq(ObjectMembers(before),
            LAMBDA m : /\ m.type = "ObjectProperty"
                       /\ m.keyType = "Identifier"
                       /\ m.keyName = name)

\* the attribute `name` of the inner icon that an object member becomes
FromObject(m) ==
  jsxAttribute(m.keyName,
               IF m.value.type = "StringLiteral" THEN m.value
               ELSE jsxExpressionContainer(m.value))
FromObjectAll(ms) == [k \in 1..Len(ms) |-> FromObject(ms[k])]

\* the direct attribute `name` of the outer element that the classifier
\* keeps: the last one written
LastDirect(before, name) == Named(before, name)[Len(Named(before, name))]

defaultSizeAttribute ==
  jsxAttribute("size", jsxExpressionContainer(literal(DefaultSize)))

\* where the size of the inner icon of visit i comes from
SizeResolved(i) ==
  LET before == visits[i].before
      objectSizes == ObjectSupplied(before, "size")
      innerSizes == UnidAll(Named(InnerMade(i), "size"))
      outerSizes == Named(OuterAfter(i), "size")
  IN IF objectSizes # <<>> THEN
       /\ innerSizes = FromObjectAll(objectSizes)
       /\ UnidAll(outerSizes) = UnidAll(Named(before, "size"))
     ELSE IF Named(before, "size") # <<>> THEN
       /\ innerSizes = <<Unid(LastDirect(before, "size"))>>
       /\ outerSizes = <<>>
     ELSE
       /\ outerSizes = <<>>
       /\ innerSizes =
            IF visits[i].component \in
                 COMPONENTS_THAT_DO_NOT_NEED_DEFAULT_SIZE_PROP_FOR_INNER_ICON
              THEN <<>> ELSE <<defaultSizeAttribute>>

\* C11 as stated: the size of the inner icon of a rewritten element is the
\* object form's if it supplies one, else the outer element's direct size,
\* which leaves the outer element, else size={20} exactly when the component
\* is not exempt; and the inner icon never carries two size attributes.
C11_SizeResolvedNeverTwo ==
  \A i \in IconRewrites :
    /\ SizeResolved(i)
    /\ Len(Named(InnerMade(i), "size")) <= 1

\* C11, amended: the same resolution; the inner icon carries the size
\* attributes the object form lists, all of them, and otherwise at most one:
\* the resolution itself never adds a second one.
C11_SizeResolved ==
  \A i \in IconRewrites :
    /\ SizeResolved(i)
    /\ Len(Named(InnerMade(i), "size")) <=
         IF ObjectSupplied(visits[i].before, "size") = <<>> THEN 1
         ELSE Len(ObjectSupplied(visits[i].before, "size"))

\* an element with a direct size and no size in its icon value was
\* rewritten, and so was a non-exempt one that has no size at all
C11_Witness ==
  \E i \in IconRewrites :
    /\ Named(visits[i].before, "size") # <<>>
    /\ ObjectSupplied(visits[i].before, "size") = <<>>
    /\ UnidAll(Named(InnerMade(i), "size")) = <<Unid(size24)>>
    /\ Named(OuterAfter(i), "size") = <<>>
    /\ visits[i].component = BottomNavItem

\* the attributes the members of the object literal stand for, in the order
\* written: a `name: value` member other than the icon string, and a spread
FromObjectMembers(ms) ==
  LET kept == SelectSeq(ms, LAMBDA m :
                \/ m.type = "SpreadElement"
                \/ /\ m.type = "ObjectProperty"
                   /\ m.keyType = "Identifier"
                   /\ ~(m.keyName = "icon" /\ m.value.type = "StringLiteral"))
  IN [k \in 1..Len(kept) |->
        IF kept[k].type = "SpreadElement" THEN jsxSpreadAttribute(kept[k].value)
        ELSE FromObject(kept[k])]

\* s is the beginning of t
IsPrefix(s, t) == Len(s) <= Len(t) /\ SubSeq(t, 1, Len(s)) = s

\* where the color of the inner icon of visit i comes from
ColorResolved(i) ==
  LET before == visits[i].before
      objectColors == ObjectSupplied(before, "color")
      innerColors == UnidAll(Named(InnerMade(i), "color"))
      outerColors == Named(OuterAfter(i), "color")
  IN IF objectColors # <<>> THEN
       /\ innerColors = FromObjectAll(objectColors)
       /\ Named(before, "color") # <<>> => outerColors = <<LastDirect(before, "color")>>
       /\ Named(before, "color") = <<>> => outerColors = <<>>
     ELSE IF Named(before, "color") # <<>> THEN
       /\ innerColors = <<Unid(LastDirect(before, "color"))>>
       /\ outerColors = <<>>
     ELSE innerColors = <<>> /\ outerColors = <<>>

\* C12: on a rewritten element the inner icon begins with the properties of
\* the object form, in the order written; the outer element's direct color
\* moves to the inner icon exactly when the object form supplies no color,
\* and when it does supply one the inner icon has the object's color and the
\* outer element keeps its own.
C12_ColorPriority ==
  \A i \in IconRewrites :
    /\ IsPrefix(FromObjectMembers(ObjectMembers(visits[i].before)),
                UnidAll(InnerMade(i)))
    /\ ColorResolved(i)

\* an element with icon={{ icon: ..., color: theme.blue }} and a direct color
\* was rewritten: the inner icon has theme.blue, the outer element its own
C12_Witness ==
  \E i \in IconRewrites :
    /\ ObjectSupplied(visits[i].before, "color") # <<>>
    /\ Named(visits[i].before, "color") # <<>>
    /\ UnidAll(Named(InnerMade(i), "color")) = <<colorBlue>>
    /\ UnidAll(Named(OuterAfter(i), "color")) = <<colorRed>>

-----------------------------------------------------------------------------
(* Finalization: imports and the review comment *)

\* the imports of this run have been dealt with and the run goes on
ImportsFinalized == pc \in {"comment", "done"}

\* finalization of the imports is over, with or without a result
ImportsSettled == ImportsFinalized \/ pc = "threw"

\* the imported names of a declaration, in the order written
ImportedNames(decl) == [k \in 1..Len(decl.specifiers) |-> decl.specifiers[k].imported]

Range(seq) == {seq[k] : k \in 1..Len(seq)}

\* every name once, in the order of Array.prototype.sort()
StrictlySorted(names) ==
  \A k \in 1..(Len(names) - 1) : StringLess(names[k], names[k + 1])

\* the first declaration from the icon package lists the union of the names
\* it had and the registered names, each once, in sorted order; no
\* declaration is added and no other statement changed
MergedIntoFirst ==
  LET i == FirstMystiqueImport(input.body)
  IN /\ Len(body) = Len(input.body)
     /\ \A k \in 1..Len(body) : k # i => body[k] = input.body[k]
     /\ body[i].type = "ImportDeclaration"
     /\ body[i].source = mystiqueIconsPath
     /\ Range(ImportedNames(body[i])) =
          Range(ImportedNames(input.body[i])) \cup importedIconNamesFromNewPackage
     /\ StrictlySorted(ImportedNames(body[i]))
     /\ ExistingMystiqueImports(body) = ExistingMystiqueImports(input.body)
     /\ Cardinality(ExistingMystiqueImports(body)) = 1

\* C13: when names were registered and the file came with an import from the
\* icon package, finalization adds no declaration; that declaration ends
\* with the union of the names it had and the registered names, each once,
\* sorted, and the file has one import from the icon package.
C13_MergedIntoExistingImport ==
  (/\ ImportsSettled
   /\ importedIconNamesFromNewPackage # {}
   /\ ExistingMystiqueImports(input.body) # {})
    => MergedIntoFirst

\* the same of the runs in which the merge returns: the declaration has
\* named specifiers only
MergedWhenReturned ==
  (/\ ImportsFinalized
   /\ importedIconNamesFromNewPackage # {}
   /\ ExistingMystiqueImports(input.body) # {})
    => MergedIntoFirst

\* a file that imports Home from the icon package and needs Settings ends
\* with the one import listing Home, Settings
MergedHomeSettings ==
  /\ pc = "done"
  /\ ExistingMystiqueImports(input.body) # {}
  /\ ImportedNames(input.body[FirstMystiqueImport(input.body)]) = <<Home>>
  /\ importedIconNamesFromNewPackage = {Settings}
  /\ ImportedNames(body[FirstMystiqueImport(body)]) = <<Home, Settings>>
  /\ Cardinality(ExistingMystiqueImports(body)) = 1

\* how many import declarations the file begins with
TopImports(stmts) ==
  Cardinality({n \in 1..Len(stmts) :
                 \A k \in 1..n : stmts[k].type = "ImportDeclaration"})

\* the position of the last import declaration of the file, 0 if it has none
LastImportAnywhere(stmts) ==
  LET at == {k \in 1..Len(stmts) : stmts[k].type = "ImportDeclaration"}
  IN IF at = {} THEN 0 ELSE CHOOSE k \in at : \A m \in at : m <= k

\* the body is the input's body with one import of the registered names,
\* sorted, put in after its first n statements
InsertedAfter(n) ==
  /\ Len(body) = Len(input.body) + 1
  /\ SubSeq(body, 1, n) = SubSeq(input.body, 1, n)
  /\ SubSeq(body, n + 2, Len(body)) = SubSeq(input.body, n + 1, Len(input.body))
  /\ body[n + 1].type = "ImportDeclaration"
  /\ body[n + 1].source = mystiqueIconsPath
  /\ Range(ImportedNames(body[n + 1])) = importedIconNamesFromNewPackage
  /\ StrictlySorted(ImportedNames(body[n + 1]))
  /\ \A k \in 1..Len(body[n + 1].specifiers) :
       body[n + 1].specifiers[k].type = "ImportSpecifier"

NeedsNewImport ==
  /\ ImportsFinalized
  /\ importedIconNamesFromNewPackage # {}
  /\ ExistingMystiqueImports(input.body) = {}

RegistryStayedEmpty == ImportsFinalized /\ importedIconNamesFromNewPackage = {}

\* C14 as stated: with names registered and no import from the icon package,
\* one import of the sorted names is inserted right after the import
\* declarations at the top of the file (first when there is none); with no
\* name registered the statements of the file are left as they were.
C14_InsertedAfterTopImports ==
  /\ NeedsNewImport => InsertedAfter(TopImports(input.body))
  /\ RegistryStayedEmpty => body = input.body

\* C14, amended: the import is inserted right after the last import
\* declaration of the file, wherever that one stands, first when the file has
\* none; with no name registered the statements are left as they were.
C14_InsertedAfterLastImport ==
  /\ NeedsNewImport => InsertedAfter(LastImportAnywhere(input.body))
  /\ RegistryStayedEmpty => body = input.body

\* a file that begins with an import of react got its icon import second
C14_Witness ==
  /\ pc = "done"
  /\ NeedsNewImport
  /\ TopImports(input.body) = 1
  /\ body[1] = ReactImport
  /\ body[2].source = mystiqueIconsPath
  /\ Len(body[2].specifiers) = 2

\* comments holding the marker token in the file as the run received it
MarkersBefore == MarkerCount(input.body, input.comments)

\* comments holding the marker token in the file as the run leaves it
MarkersAfter == MarkerCount(body, comments)

\* C15: the run adds the review comment exactly when the review flag is set
\* and the file came with no comment holding the marker token; the file it
\* returns holds at most one such comment, and none is added when the flag
\* is not set.
C15_MarkerOnceWhenFlagged ==
  pc = "done" =>
    /\ MarkersAfter - MarkersBefore =
         (IF trulyProblematicSkipOccurred /\ MarkersBefore = 0 THEN 1 ELSE 0)
    /\ MarkersAfter <= 1

\* the same of the files that come without the marker token
MarkerAddedToUnmarkedFile ==
  (pc = "done" /\ MarkersBefore = 0) =>
    MarkersAfter = (IF trulyProblematicSkipOccurred THEN 1 ELSE 0)

\* a file without the marker token was flagged and got the review comment
UnmarkedFileFlagged ==
  /\ pc = "done"
  /\ MarkersBefore = 0
  /\ trulyProblematicSkipOccurred
  /\ comments = <<topLevelCommentText>>

\* C16: whatever the shapes in the parsed tree (an icon attribute without a
\* value, string keys in the object literal, a default specifier in the
\* import from the icon package), no run throws: every run goes on to return
\* its text, and once the traversal is over every target element was visited.
C16_NeverThrows ==
  /\ pc # "threw"
  /\ AfterTraversal => EveryTargetVisited

\* C17: a visit that ends skipped with a warning writes exactly one
\* diagnostic line for its occurrence, and a visit that rewrites writes none.
C17_OneDiagnosticPerWarning ==
  \A i \in VisitIndexes :
    /\ visits[i].outcome = "SkippedWithWarning" => Len(visits[i].logged) = 1
    /\ visits[i].outcome = "Rewritten" => Len(visits[i].logged) = 0

-----------------------------------------------------------------------------
(* The outcome of a visit *)

\* the attributes of the element of visit i that carry an icon
IconBearing(i) ==
  SelectSeq(visits[i].before,
            LAMBDA a : /\ a.type = "JSXAttribute"
                       /\ a.name \in IconBearingNames(visits[i].component))

\* the value names an icon: a string literal, or an object literal with an
\* `icon: "..."` member
NamesIcon(v) ==
  \/ v.type = "StringLiteral"
  \/ /\ v.type = "JSXExpressionContainer"
     /\ v.expression # <<>>
     /\ v.expression[1].type = "ObjectExpression"
     /\ \E k \in 1..Len(v.expression[1].properties) :
          LET m == v.expression[1].properties[k]
          IN m.type = "ObjectProperty" /\ m.keyName = "icon"
               /\ m.value.type = "StringLiteral"

VisitsOf(id) == {i \in VisitIndexes : visits[i].elem = id}

\* what the outcome of visit i says of the element and of the visit's effects
OutcomeFits(i) ==
  LET v == visits[i]
      icons == IconBearing(i)
  IN /\ v.outcome \in {"NoIconProp", "Rewritten", "SkippedSilently",
                       "SkippedWithWarning"}
     /\ v.outcome = "NoIconProp" <=> icons = <<>>
     /\ v.outcome = "NoIconProp" =>
          /\ ~v.assigned /\ v.after = v.before
          /\ ~v.skipped /\ ~v.problem /\ v.added = <<>>
     /\ v.outcome = "Rewritten" =>
          /\ v.assigned
          /\ \E k \in 1..Len(icons) : NamesIcon(icons[k].value)
     /\ v.outcome = "SkippedSilently" =>
          /\ ~v.assigned /\ ~v.problem /\ v.added = <<>>
          /\ \A k \in 1..Len(icons) : IsJsxElementValue(icons[k].value)
     /\ v.outcome = "SkippedWithWarning" =>
          /\ ~v.assigned /\ v.problem /\ v.added = <<>>
          /\ \E k \in 1..Len(icons) : ~IsJsxElementValue(icons[k].value)

\* C18: every target element of the file is visited once in a run, never
\* twice, and its visit ends in one of NoIconProp (no icon attribute, nothing
\* changed, no ledger update), Rewritten (only from a string literal or an
\* object with an icon string), SkippedSilently (the icon is a JSX element
\* already) and SkippedWithWarning (a value that is none of these, or one
\* that maps to UnknownIcon).
C18_OutcomeMachine ==
  /\ \A id \in InputElements : Cardinality(VisitsOf(id)) <= 1
  /\ AfterTraversal => EveryTargetVisited
  /\ \A i \in VisitIndexes : OutcomeFits(i)

-----------------------------------------------------------------------------
(* The attributes of a rewritten outer element *)

IsUnrelated(a) == ~(a.type = "JSXAttribute" /\ a.name \in {"icon", "color", "size"})

\* the direct attribute `name` that the inner icon did not take: the object
\* form supplies that name itself
KeptDirect(i, name) ==
  IF Named(visits[i].before, name) # <<>>
       /\ ObjectSupplied(visits[i].before, name) # <<>>
    THEN <<LastDirect(visits[i].before, name)>>
    ELSE <<>>

\* the attribute is the new icon attribute of visit i: it holds, in braces,
\* the inner icon element the visit built
IsNewIconAttribute(i, a) ==
  /\ IsIconAttribute(a)
  /\ a.id = 0
  /\ a.value.type = "JSXExpressionContainer"
  /\ a.value.expression # <<>>
  /\ a.value.expression[1].type = "JSXElement"
  /\ Len(visits[i].made) = 1
  /\ visits[i].made[1].name = jsxIdentifier(visits[i].added[1])

\* C19: the attributes of a rewritten outer element are the unrelated
\* attributes (all but icon, color and size, spreads included) in their
\* original order, then the one new icon attribute holding the inner icon
\* element, then the direct color if the inner icon did not take it, then
\* the direct size if the inner icon did not take it.
C19_FinalAttributeOrder ==
  \A i \in IconRewrites :
    LET unrelated == SelectSeq(visits[i].before, IsUnrelated)
        after == OuterAfter(i)
        n == Len(unrelated)
    IN /\ Len(after) > n
       /\ SubSeq(after, 1, n) = unrelated
       /\ IsNewIconAttribute(i, after[n + 1])
       /\ SubSeq(after, n + 2, Len(after)) =
            KeptDirect(i, "color") \o KeptDirect(i, "size")
       /\ Len(IconAttributesOf(after)) = 1

\* an element written size, label, icon, spread, color whose icon object
\* supplies color and size was rewritten: label, spread, icon, color, size
C19_Witness ==
  \E i \in IconRewrites :
    /\ Len(visits[i].before) = 5
    /\ Len(OuterAfter(i)) = 5
    /\ UnidAll(OuterAfter(i)) =
         <<labelX, jsxSpreadAttribute(identifier(rest)),
           Unid(OuterAfter(i)[3]), colorRed, size24>>
    /\ IsNewIconAttribute(i, OuterAfter(i)[3])

\* how many times the node a is in the list
Occurrences(attrs, a) == Len(SelectSeq(attrs, LAMBDA x : x = a))

\* C20: every attribute node of a rewritten outer element other than its
\* icon attributes, also a color or a size written more than once, is after
\* the rewrite in exactly one place: on the outer element or on the inner
\* icon, not on both and not on neither.
C20_AttributesConserved ==
  \A i \in IconRewrites :
    \A n \in 1..Len(visits[i].before) :
      LET a == visits[i].before[n]
      IN ~IsIconAttribute(a) =>
           Occurrences(OuterAfter(i), a) + Occurrences(visits[i].inner, a) = 1

\* the same of the elements that write no color and no size twice
ConservedWithoutRepeats ==
  \A i \in IconRewrites :
    (Len(Named(visits[i].before, "color")) <= 1
       /\ Len(Named(visits[i].before, "size")) <= 1)
      => \A n \in 1..Len(visits[i].before) :
           LET a == visits[i].before[n]
           IN ~IsIconAttribute(a) =>
                Occurrences(OuterAfter(i), a) + Occurrences(visits[i].inner, a) = 1

-----------------------------------------------------------------------------
(* The members of the object literal on the inner icon *)

\* the member is the icon string of the object literal
IsIconString(m) ==
  /\ m.type = "ObjectProperty"
  /\ m.keyType = "Identifier"
  /\ m.keyName = "icon"
  /\ m.value.type = "StringLiteral"

\* the attribute a carries the member m: a spread as a spread attribute, a
\* string value as a string literal, another value in braces
Carries(a, m) ==
  IF m.type = "SpreadElement"
    THEN a.type = "JSXSpreadAttribute" /\ a.value = m.value
    ELSE /\ a.type = "JSXAttribute"
         /\ m.keyType = "Identifier" => a.name = m.keyName
         /\ a.value = IF m.value.type = "StringLiteral" THEN m.value
                      ELSE jsxExpressionContainer(m.value)

\* C21: the inner icon of a rewritten element with an object-literal icon
\* value begins with one attribute for every member of the object other
\* than the icon string, in the object's order, whatever the form of the
\* member's key: no member is lost.
C21_ObjectMembersCarried ==
  \A i \in IconRewrites :
    LET others == SelectSeq(ObjectMembers(visits[i].before),
                            LAMBDA m : ~IsIconString(m))
        inner == visits[i].inner
    IN /\ Len(others) <= Len(inner)
       /\ \A k \in 1..Len(others) : Carries(inner[k], others[k])

\* the same of the objects whose keys are all written as identifiers
IdentifierKeysCarried ==
  \A i \in IconRewrites :
    LET members == ObjectMembers(visits[i].before)
        others == SelectSeq(members, LAMBDA m : ~IsIconString(m))
        inner == visits[i].inner
    IN (\A k \in 1..Len(members) :
          members[k].type = "ObjectProperty" => members[k].keyType = "Identifier")
         => /\ Len(others) <= Len(inner)
            /\ \A k \in 1..Len(others) : Carries(inner[k], others[k])

\* the icon value is an object literal without an icon string
ObjectWithoutIconString(v) ==
  /\ v.type = "JSXExpressionContainer"
  /\ v.expression # <<>>
  /\ v.expression[1].type = "ObjectExpression"
  /\ \A k \in 1..Len(v.expression[1].properties) :
       ~IsIconString(v.expression[1].properties[k])

\* the visits of elements whose one icon-bearing attribute has such a value
ObjectSkips ==
  {i \in VisitIndexes :
     /\ Len(IconBearing(i)) = 1
     /\ ObjectWithoutIconString(IconBearing(i)[1].value)}

\* C22: an element whose icon value is an object literal without a
\* string-valued icon key (empty, no icon key, icon key with another value,
\* a spread and no icon key) is not rewritten: its attributes stay as they
\* were, nothing is registered, and the review flag is set.
C22_ObjectWithoutIconSkipped ==
  \A i \in ObjectSkips :
    /\ ~visits[i].assigned
    /\ visits[i].after = visits[i].before
    /\ nodes[visits[i].elem].attributes = visits[i].before
    /\ visits[i].added = <<>>
    /\ visits[i].made = <<>>
    /\ visits[i].problem
    /\ trulyProblematicSkipOccurred

\* an element with icon={{ ...rest }} was visited and flagged
C22_Witness ==
  \E i \in ObjectSkips :
    /\ IconBearing(i)[1].value = IconObject(<<spreadElement(identifier(rest))>>)
    /\ visits[i].problem
    /\ nodes[visits[i].elem].attributes = visits[i].before

-----------------------------------------------------------------------------
(* A file processed alone: the transformer computed in one piece, from a  *)
(* registry and flags of its own                                          *)

\* the callback applied to the element id
VisitElement(st, id) ==
  LET comp == getComponentName(st.nodes[id])
      attrs == st.nodes[id].attributes
      r == IF comp = TextButton
             THEN VisitTextButton(attrs, Len(st.nodes))
             ELSE VisitIconProp(attrs, comp, Len(st.nodes) + 1)
  IN [nodes |-> [st.nodes EXCEPT ![id].attributes = r.attributes] \o r.created,
      skipped |-> st.skipped \/ r.skipped,
      problem |-> st.problem \/ r.problem,
      registry |-> st.registry \cup Range(r.added)]

RECURSIVE VisitFound(_, _)
VisitFound(st, found) ==
  IF found = <<>> THEN st
  ELSE VisitFound(VisitElement(st, Head(found)), Tail(found))

Reverse(seq) == [k \in 1..Len(seq) |-> seq[Len(seq) + 1 - k]]

\* the components taken in the order `rules`, the elements found for each
\* visited in document order, or in the opposite order when `backwards`
RECURSIVE TraverseIn(_, _, _, _)
TraverseIn(st, stmts, rules, backwards) ==
  IF rules = <<>> THEN st
  ELSE LET found == FoundElements(st.nodes, stmts, Head(rules))
       IN TraverseIn(VisitFound(st, IF backwards THEN Reverse(found) ELSE found),
                     stmts, Tail(rules), backwards)

\* the merge of the names into the existing import throws
ImportsThrow(stmts, registry) ==
  /\ registry # {}
  /\ ExistingMystiqueImports(stmts) # {}
  /\ \E k \in 1..Len(stmts[FirstMystiqueImport(stmts)].specifiers) :
       ~HasImported(stmts[FirstMystiqueImport(stmts)].specifiers[k])

FinalizedImports(stmts, registry) ==
  IF registry = {} THEN stmts
  ELSE IF ExistingMystiqueImports(stmts) # {}
    THEN [stmts EXCEPT ![FirstMystiqueImport(stmts)].specifiers =
            MergedSpecifiers(@, registry)]
  ELSE Splice(stmts, LastImportIndex(stmts),
              importDeclaration(NewSpecifiers(registry), mystiqueIconsPath))

\* what the transformer returns for the tree, and whether it throws
\* instead, with the components and the elements taken in the given order
RunIn(tree, rules, backwards) ==
  LET st == TraverseIn([nodes |-> tree.nodes, skipped |-> FALSE,
                        problem |-> FALSE, registry |-> {}],
                       tree.body, rules, backwards)
      threw == ImportsThrow(tree.body, st.registry)
      programComments ==
        IF st.problem /\ ~AlreadyHasFileLevelComment(tree.comments)
          THEN <<topLevelCommentText>> \o tree.comments ELSE tree.comments
  IN [threw |-> threw,
      skipped |-> st.skipped,
      problem |-> st.problem,
      text |-> IF threw THEN toSource(<<>>, <<>>, <<>>)
               ELSE toSource(st.nodes, FinalizedImports(tree.body, st.registry),
                             programComments)]

\* the same in the order of the code
RunAlone(tree) == RunIn(tree, TARGET_COMPONENTS, FALSE)

\* a call of the transformer has just begun
RunStarts == pc = "traverse" /\ ci = 0 /\ queue = <<>> /\ visits = <<>>

\* C23: every call starts with an empty registry and both flags false, and
\* what a call returns for its file, whatever file was processed before it
\* in the same process, is what the file gives when processed alone.
C23_LedgerScopedToFile ==
  /\ RunStarts =>
       /\ importedIconNamesFromNewPackage = {}
       /\ ~fileHasSkippedItems
       /\ ~trulyProblematicSkipOccurred
  /\ pc = "done" => ~RunAlone(input).threw /\ Output = RunAlone(input).text
  /\ pc = "threw" => RunAlone(input).threw

\* the empty file was processed as a later file of the process and came
\* back empty: no import, no review comment
C23_Witness ==
  /\ pc = "done"
  /\ run >= 2
  /\ previous = <<>>
  /\ input.nodes = <<>>
  /\ Output = toSource(<<>>, <<>>, <<>>)

\* A text as written: every element in the place where it stands, with
\* the elements it nests, whatever their identities in the heap.
RECURSIVE RenderNode(_, _)
RECURSIVE RenderElement(_, _)
RenderNode(h, v) ==
  [type |-> v.type, str |-> v.str, num |-> v.num,
   element |-> IF v.elem = 0 THEN <<>> ELSE <<RenderElement(h, v.elem)>>,
   properties |-> [k \in 1..Len(v.properties) |->
                     [type |-> v.properties[k].type,
                      keyType |-> v.properties[k].keyType,
                      keyName |-> v.properties[k].keyName,
                      value |-> RenderNode(h, v.properties[k].value)]],
   expression |-> IF v.expression = <<>> THEN <<>>
                  ELSE <<RenderNode(h, v.expression[1])>>]

RenderElement(h, id) ==
  [name |-> h[id].name,
   attributes |-> [k \in 1..Len(h[id].attributes) |->
                     [type |-> h[id].attributes[k].type,
                      name |-> h[id].attributes[k].name,
                      value |-> RenderNode(h, h[id].attributes[k].value)]]]

Render(text) ==
  [header |-> text.header,
   body |-> [k \in 1..Len(text.body) |->
               [type |-> text.body[k].type,
                source |-> text.body[k].source,
                specifiers |-> text.body[k].specifiers,
                element |-> IF text.body[k].elem = 0 THEN <<>>
                            ELSE <<RenderElement(text.nodes, text.body[k].elem)>>]]]

\* orders of the rule list other than the code's: the opposite order, and
\* the code's order with TextButton moved to the end
RuleOrders ==
  {Reverse(TARGET_COMPONENTS),
   SelectSeq(TARGET_COMPONENTS, LAMBDA c : c # TextButton) \o <<TextButton>>}

\* C24: every element matches at most one rule, and whatever the order of
\* the rule list and of the elements found for a rule, the run gives the same
\* text (the import statement and every element's attributes) and the same
\* two flags.
C24_OrderIrrelevant ==
  /\ \A id \in 1..Len(nodes) :
       Cardinality({k \in 1..NumComponents :
                      MatchesComponent(nodes[id], TARGET_COMPONENTS[k])}) <= 1
  /\ pc = "done" =>
       \A rules \in RuleOrders \cup {TARGET_COMPONENTS} :
         \A backwards \in BOOLEAN :
           LET r == RunIn(input, rules, backwards)
           IN /\ ~r.threw
              /\ Render(r.text) = Render(Output)
              /\ r.skipped = fileHasSkippedItems
              /\ r.problem = trulyProblematicSkipOccurred

-----------------------------------------------------------------------------
(* The command line runner *)

Printed(line) == \E k \in 1..Len(printed) : printed[k] = line

\* C25: the success line is printed only once the child has completed
\* successfully, never while it runs and never for a failed run; when the
\* child fails the runner reports the failure and exits with a status other
\* than 0.
C25_SuccessOnlyAfterChild ==
  /\ Printed(FinishedSuccessfully) => child = "succeeded"
  /\ (cliPc = "exited" /\ child = "failed") =>
       /\ Printed(CodemodFailed)
       /\ exitStatus # 0

-----------------------------------------------------------------------------
(* The registry and the tree at the end of a run *)

\* the component names of the icon elements the visits of this run built
SynthesizedNames ==
  UNION {{getComponentName(visits[i].made[k]) : k \in 1..Len(visits[i].made)}
         : i \in VisitIndexes}

\* the names a tree imports from the icon package through named specifiers
NamedFromIconPackage(stmts) ==
  UNION {{stmts[k].specifiers[n].imported : n \in
            {m \in 1..Len(stmts[k].specifiers) :
               stmts[k].specifiers[m].type = "ImportSpecifier"}}
         : k \in ExistingMystiqueImports(stmts)}

RegistryAgreesWithTree ==
  /\ UnknownIcon \notin importedIconNamesFromNewPackage
  /\ importedIconNamesFromNewPackage = SynthesizedNames
  /\ SynthesizedNames \subseteq NamedFromIconPackage(body)

\* C26: when a run is over, the registry does not hold UnknownIcon, the names
\* in it are the component names of the icon elements this run built, and
\* each of these names is a named specifier of an import from the icon
\* package in the tree the run leaves.
C26_RegistryAgreesWithTree == ImportsSettled => RegistryAgreesWithTree

\* the same of the runs that return a tree
RegistryAgreesWhenReturned == ImportsFinalized => RegistryAgreesWithTree

\* a run that built icon elements has returned
BuiltAndReturned == ImportsFinalized /\ SynthesizedNames # {}

-----------------------------------------------------------------------------
(* The sentinel *)

\* the text after the prefixes has a segment that is not empty
HasNameSegment(str) ==
  \E part \in Range(split(StripPrefix(str), NameSeparators)) : part # <<>>

\* the visit i took the UnknownIcon branch: an icon string was read and the
\* element, or the TextButton attribute, was kept for review
SkippedAsUnmappable(i, str) ==
  IF visits[i].component = TextButton
    THEN \E k \in 1..Len(visits[i].before) :
           LET a == visits[i].before[k]
           IN /\ a.type = "JSXAttribute"
              /\ a.name \in {"prefixIcon", "suffixIcon"}
              /\ a.value.type = "StringLiteral"
              /\ a.value.str = str
              /\ Includes(visits[i].after, a)
              /\ visits[i].problem
    ELSE LET parsedProps == parseComponentAttributes(visits[i].before)
         IN /\ parsedProps.iconAttributeNode # NoAttr
            /\ ~parsedProps.isUnhandledIconProp
            /\ parsedProps.iconPropValue = JsString(str)
            /\ visits[i].skipped

\* the icon strings of the elements
SentinelStrings == IconStrings \ {<<>>}

\* C27: the mapper returns UnknownIcon only for an input that is not a
\* non-empty string or whose text after the prefixes has no non-empty
\* segment, and no element whose icon string has a non-empty segment is
\* skipped as unmappable.
C27_SentinelUnambiguous ==
  /\ (mapOut # <<>> /\ mapOut[1] = UnknownIcon)
       => \/ mapIn.kind # "string"
          \/ mapIn.str = <<>>
          \/ ~HasNameSegment(mapIn.str)
  /\ \A i \in VisitIndexes : \A str \in SentinelStrings :
       SkippedAsUnmappable(i, str) => ~HasNameSegment(str)

\* the same of every string but those whose segments spell the sentinel
SentinelOnlyForItsSpelling ==
  /\ (mapOut # <<>> /\ mapOut[1] = UnknownIcon)
       => \/ mapIn.kind # "string"
          \/ mapIn.str = <<>>
          \/ ~HasNameSegment(mapIn.str)
          \/ JoinParts(split(StripPrefix(mapIn.str), NameSeparators)) = UnknownIcon
  /\ \A i \in VisitIndexes : \A str \in SentinelStrings :
       SkippedAsUnmappable(i, str)
         => \/ ~HasNameSegment(str)
            \/ JoinParts(split(StripPrefix(str), NameSeparators)) = UnknownIcon

\* an element is skipped as unmappable
SomeSkippedAsUnmappable ==
  \E i \in VisitIndexes : \E str \in SentinelStrings : SkippedAsUnmappable(i, str)

-----------------------------------------------------------------------------
(* TextButton: what becomes of prefixIcon and suffixIcon *)

TextButtonVisits == {i \in VisitIndexes : visits[i].component = TextButton}

\* the positions of the prefixIcon and suffixIcon attributes the visit i met
IconPositions(i) ==
  {k \in 1..Len(visits[i].before) :
     /\ visits[i].before[k].type = "JSXAttribute"
     /\ visits[i].before[k].name \in {"prefixIcon", "suffixIcon"}}

\* the attribute holds a JSX element already
HoldsJsx(a) ==
  /\ a.value.type = "JSXExpressionContainer"
  /\ a.value.expression # <<>>
  /\ a.value.expression[1].type = "JSXElement"

\* position k holds, after the visit, the same attribute name with a new
\* self-closing element without props, named as the string maps
RewrittenInPlace(i, k) ==
  LET a == visits[i].before[k]
      b == visits[i].after[k]
      name == getNewIconComponentName(JsString(a.value.str))
  IN /\ a.value.type = "StringLiteral"
     /\ name # UnknownIcon
     /\ b.type = "JSXAttribute"
     /\ b.name = a.name
     /\ HoldsJsx(b)
     /\ b.value.expression[1].elem \in 1..Len(nodes)
     /\ nodes[b.value.expression[1].elem] = jsxElement(jsxIdentifier(name), <<>>)
     /\ \E m \in 1..Len(visits[i].made) :
          visits[i].made[m] = jsxElement(jsxIdentifier(name), <<>>)

TextButtonAttributeSettled(i, k) ==
  \/ RewrittenInPlace(i, k)
  \/ HoldsJsx(visits[i].before[k]) /\ visits[i].after[k] = visits[i].before[k]
  \/ /\ visits[i].after[k] = visits[i].before[k]
     /\ visits[i].problem
     /\ trulyProblematicSkipOccurred

\* every attribute stays where it was, the others as they were
TextButtonOrderKept(i) ==
  /\ Len(visits[i].after) = Len(visits[i].before)
  /\ \A k \in 1..Len(visits[i].before) :
       k \notin IconPositions(i) => visits[i].after[k] = visits[i].before[k]

\* C28: every prefixIcon or suffixIcon of a TextButton is rewritten in place
\* to a self-closing icon element without props, or was a JSX element and is
\* kept, or is kept as written with the review flag set; the order of the
\* attributes does not change.  The empty string and an attribute without a
\* value are no exception.
C28_TextButtonSettled ==
  \A i \in TextButtonVisits :
    /\ TextButtonOrderKept(i)
    /\ \A k \in IconPositions(i) : TextButtonAttributeSettled(i, k)

\* the same of every attribute but prefixIcon="" and suffixIcon=""
TextButtonSettledButEmpty ==
  \A i \in TextButtonVisits :
    /\ TextButtonOrderKept(i)
    /\ \A k \in IconPositions(i) :
         visits[i].before[k].value # stringLiteral(<<>>)
           => TextButtonAttributeSettled(i, k)

\* a TextButton whose prefixIcon has no value was kept and flagged
BarePrefixFlagged ==
  \E i \in TextButtonVisits : \E k \in IconPositions(i) :
    /\ visits[i].before[k].value = NoNode
    /\ visits[i].after[k] = visits[i].before[k]
    /\ visits[i].problem

\* a TextButton with prefixIcon and suffixIcon had both rewritten in place
BothRewritten ==
  \E i \in TextButtonVisits :
    /\ Cardinality(IconPositions(i)) = 2
    /\ \A k \in IconPositions(i) : RewrittenInPlace(i, k)

-----------------------------------------------------------------------------
(* The bindings of the import the names are merged into *)

\* the merge is over: names were registered and the file came with an import
\* from the icon package
MergeSettled ==
  /\ ImportsSettled
  /\ importedIconNamesFromNewPackage # {}
  /\ ExistingMystiqueImports(input.body) # {}

\* the specifier is among those of the declaration: same kind, same imported
\* name, same local name
BindingKept(spec, decl) ==
  \E n \in 1..Len(decl.specifiers) :
    /\ decl.specifiers[n].type = spec.type
    /\ decl.specifiers[n].imported = spec.imported
    /\ decl.specifiers[n].local = spec.local

\* C29: after the merge into an existing import from the icon package, every
\* specifier the declaration had is still in it, with the imported name and
\* the local name it had.
C29_BindingsPreserved ==
  MergeSettled =>
    LET i == FirstMystiqueImport(input.body)
    IN \A k \in 1..Len(input.body[i].specifiers) :
         BindingKept(input.body[i].specifiers[k], body[i])

\* the same of the specifiers written without an alias
PlainBindingsPreserved ==
  MergeSettled =>
    LET i == FirstMystiqueImport(input.body)
    IN \A k \in 1..Len(input.body[i].specifiers) :
         input.body[i].specifiers[k].local = input.body[i].specifiers[k].imported
           => BindingKept(input.body[i].specifiers[k], body[i])

\* a merge into an import with an alias has returned
AliasMerged ==
  /\ MergeSettled
  /\ pc = "done"
  /\ \E k \in 1..Len(input.body[FirstMystiqueImport(input.body)].specifiers) :
       LET sp == input.body[FirstMystiqueImport(input.body)].specifiers[k]
       IN sp.type = "ImportSpecifier" /\ sp.local # sp.imported

-----------------------------------------------------------------------------
(* The skip ledger *)

\* C30: in every state of a run the review flag implies the any-skip flag,
\* and within a run no step takes a flag that is set back to false.
C30_LedgerConsistent ==
  [][/\ trulyProblematicSkipOccurred => fileHasSkippedItems
     /\ trulyProblematicSkipOccurred' => fileHasSkippedItems'
     /\ run' = run =>
          /\ fileHasSkippedItems => fileHasSkippedItems'
          /\ trulyProblematicSkipOccurred => trulyProblematicSkipOccurred']_vars

\* a run set both flags during the traversal, went on to visit more
\* elements, and has returned with both still set
C30_Witness ==
  /\ pc = "done"
  /\ trulyProblematicSkipOccurred
  /\ fileHasSkippedItems
  /\ Len(visits) >= 2
  /\ visits[1].problem
  /\ ~visits[Len(visits)].skipped

====
